---- MODULE Spec2Model ----
(***************************************************************************)
(* A model of meteoroid's orchestration core: the bounded top-K crate      *)
(* consumer, the analysis pool, the per-crate analysis with its shared     *)
(* seen-set, the acknowledged stop channel, the acquisition stage, the     *)
(* scan of the versions dump, the stream bridge, the report, main's signal *)
(* loop, the WorkItem channel of the two crate sources and exec_parallel.   *)
(* Each part has its own specification (SpecConsumer, SpecOrders,          *)
(* SpecAnalyze, SpecPool, FairSpecPool, SpecStop, FairSpecStop, SpecStage, *)
(* SpecScan, SpecBridge, SpecReport, SpecMain, SpecRerun, SpecFeed,        *)
(* SpecExec, FairSpecExecStop, FairSpecExec); the variables of the other   *)
(* parts stay at their initial values.                                     *)
(***************************************************************************)
EXTENDS Integers, Sequences, FiniteSets, TLC

VARIABLES
    \* ---- crates/crate_consumer/default.rs: Consumer ----
    consumer,       \* the Consumer fed in arrival order
    consumer_b,     \* a second Consumer fed the same records in another order
    pending_b,      \* eligible records consumer has seen and consumer_b not yet (a bag)
    fed,            \* the eligible records fed to consumer (a bag)
    last_consume,   \* how the last consume call on consumer ended
    \* ---- analyze.rs: analyze_crate tasks sharing the seen set ----
    task,           \* per spawned analyze_crate call: its position and locals
    seen,           \* the DashSet of workspace identities
    visited,        \* how many workspace roots the for loops have taken so far
    fmt_runs,       \* per identity, how often the upstream formatter was run on it
    insert_log,     \* per identity, what the inserts so far returned, in order
    analysed,       \* per identity, how many CrateAnalysis were pushed for it
    ca,             \* the CrateAnalysis pushed last, by any task
    \* ---- lib.rs: analysis_task, on_analysis, drain_analyses ----
    pool,           \* analysis_task: its position, max_concurrent, its items, the errors logged
    job,            \* per spawned analysis: its state and its join result
    unordered,      \* the FuturesUnordered of join handles
    joined,         \* per analysis, how often its handle was taken from unordered
    forwarded,      \* per analysis, how often its result was sent on the result channel
    results,        \* the result channel and what drain_analyses took from it
    orch,           \* exec_parallel around drain_analyses: draining, stopped, finished
    \* ---- sync.rs: stop_channel, StopSender::stop, StopReceiver::with_stop ----
    stop_chan,      \* the oneshot carrying the request: empty, request, taken, closed
    stop_rx,        \* the StopReceiver: alive or dropped
    ack,            \* the oneshot carrying the acknowledgment: none, pending, sent, dropped
    stopper,        \* the owner of the StopSender: idle, awaiting, true, false, dropped
    call,           \* the with_stop call in progress or last returned
    sent_when,      \* the call as it was when stop() sent its request
    \* ---- git.rs: run_sync_task, sync_task ----
    crates,         \* the candidates: per candidate, whether it has a repository
    should_sync,    \* git_resync_before
    sync,           \* sync_task: where it is suspended and what it awaits
    work,           \* the WorkItem channel from sync_task to the analysis pool
    \* ---- crates/csv_parse.rs: parse_versions_xml ----
    scan,           \* the scan of the versions dump: its Consumer, position and end
    \* ---- crates.rs: response_reader, AsyncReadShim ----
    channel,       \* the sync_channel: queue, sender and receiver ends
    producer,      \* the spawned task reading the response stream
    shim,          \* the AsyncReadShim: overflow and last result
    passed,        \* what was enqueued and what the reader got
    \* ---- analyze/report.rs: AnalysisReport ----
    report,         \* the AnalysisReport, the add_result call at an await, whether it is finished
    report_args,    \* write_outputs and skip_non_diverging_diffs
    added,          \* what drain_analyses handed to add_result
    \* ---- meteoroid/src/main.rs: main ----
    main,           \* the loop: running or exited, the exit code, interrupts handled
    meteoroid_task, \* the spawned run: running or its join result
    stop_send,      \* Option<StopSender>: Some until the first ctrl-c takes it
    signals,        \* ctrl-c: whether one is pending, how many were sent
    stop_tasks,     \* the spawned stop() calls: awaiting, true or false
    \* ---- git.rs: ensure_at, sync_task run again ----
    workdir,        \* per candidate, its checkout under the working directory
    runs,           \* the runs of sync_task that have returned
    run_log,        \* the run in progress: what it found, cloned and sent
    \* ---- lib.rs exec_parallel, local_crates.rs ----
    config,         \* the crate source and the concurrency limits of the run
    finder,         \* find_local_crates_in: where it is suspended
    \* ---- lib.rs: exec_parallel ----
    exec,           \* exec_parallel: where it is, what it returned, the crate source
    prep,           \* the two formatter builds and the fetch of the candidates
    user,           \* config.stop_receiver and the with_stop calls made on it
    stage_task,     \* the two spawned tasks, their StopReceivers and StopSenders
    pipe            \* the WorkItem channel, analysis_task, the result channel, the report

consumerVars == <<consumer, consumer_b, pending_b, fed, last_consume>>

analyzeVars == <<task, seen, visited, fmt_runs, insert_log, analysed, ca>>

poolVars == <<pool, job, unordered, joined, forwarded, results, orch>>

stopVars == <<stop_chan, stop_rx, ack, stopper, call, sent_when>>

stageVars == <<crates, should_sync, sync, work>>

scanVars == <<scan>>

bridgeVars == <<channel, producer, shim, passed>>

reportVars == <<report, report_args, added>>

mainVars == <<main, meteoroid_task, stop_send, signals, stop_tasks>>

rerunVars == <<workdir, runs, run_log>>

feedVars == <<config, finder>>

execVars == <<exec, prep, user, stage_task, pipe>>

vars ==
    <<consumerVars,
      analyzeVars,
      poolVars,
      stopVars,
      stageVars,
      scanVars,
      bridgeVars,
      reportVars,
      mainVars,
      rerunVars,
      feedVars,
      execVars>>

\* the variables a part leaves alone
notConsumer ==
    <<analyzeVars,
      poolVars,
      stopVars,
      stageVars,
      scanVars,
      bridgeVars,
      reportVars,
      mainVars,
      rerunVars,
      feedVars,
      execVars>>

notAnalyze ==
    <<consumerVars,
      poolVars,
      stopVars,
      stageVars,
      scanVars,
      bridgeVars,
      reportVars,
      mainVars,
      rerunVars,
      feedVars,
      execVars>>

notPool ==
    <<consumerVars,
      analyzeVars,
      stopVars,
      stageVars,
      scanVars,
      bridgeVars,
      reportVars,
      mainVars,
      rerunVars,
      feedVars,
      execVars>>

notStop ==
    <<consumerVars,
      analyzeVars,
      poolVars,
      stageVars,
      scanVars,
      bridgeVars,
      reportVars,
      mainVars,
      rerunVars,
      feedVars,
      execVars>>

notStage ==
    <<consumerVars,
      analyzeVars,
      poolVars,
      scanVars,
      bridgeVars,
      reportVars,
      mainVars,
      rerunVars,
      feedVars,
      execVars>>

notScan ==
    <<consumerVars,
      analyzeVars,
      poolVars,
      stopVars,
      stageVars,
      bridgeVars,
      reportVars,
      mainVars,
      rerunVars,
      feedVars,
      execVars>>

notBridge ==
    <<consumerVars,
      analyzeVars,
      poolVars,
      stopVars,
      stageVars,
      scanVars,
      reportVars,
      mainVars,
      rerunVars,
      feedVars,
      execVars>>

notReport ==
    <<consumerVars,
      analyzeVars,
      poolVars,
      stopVars,
      stageVars,
      scanVars,
      bridgeVars,
      mainVars,
      rerunVars,
      feedVars,
      execVars>>

notMain ==
    <<consumerVars,
      analyzeVars,
      poolVars,
      stopVars,
      stageVars,
      scanVars,
      bridgeVars,
      reportVars,
      rerunVars,
      feedVars,
      execVars>>

\* the variables the acquisition run again leaves alone
notStageRerun ==
    <<consumerVars,
      analyzeVars,
      poolVars,
      stopVars,
      scanVars,
      bridgeVars,
      reportVars,
      mainVars,
      feedVars,
      execVars>>

notStageFeed ==
    <<consumerVars,
      analyzeVars,
      poolVars,
      scanVars,
      bridgeVars,
      reportVars,
      mainVars,
      rerunVars,
      execVars>>

notExec ==
    <<consumerVars,
      analyzeVars,
      poolVars,
      stopVars,
      stageVars,
      scanVars,
      bridgeVars,
      reportVars,
      mainVars,
      rerunVars,
      feedVars>>

(***************************************************************************)
(* Bounds of the model.                                                    *)
(***************************************************************************)
MaxK == 2           \* max_crates ranges over 0..MaxK
MaxRecords == 3     \* records fed to one Consumer
MaxIds == 3         \* crate ids 1..MaxIds
MaxDownloads == 3   \* download counts 1..MaxDownloads
MaxTasks == 2       \* analyze_crate calls running at once
MaxRoots == 2       \* workspace roots the for loops of all calls visit in total
MaxConcurrent == 2  \* max_concurrent ranges over 1..MaxConcurrent
MaxItems == 3       \* the WorkItem channel delivers 0..MaxItems items
MaxCalls == 2       \* with_stop calls made on one StopReceiver
MaxCandidates == 2  \* candidates handed to sync_task
MaxClones == 1      \* git_clone_max_concurrent ranges over 1..MaxClones
MaxScan == 3        \* records the scan of the versions dump reads
MaxChunks == 34     \* chunks the response body yields
MaxChunkLen == 2    \* bytes in one chunk
MaxBuf == 2         \* bytes in one read buffer
MaxResults == 2     \* results drain_analyses receives
MaxWritten == 1     \* results it receives when their outputs are written
MaxSignals == 3     \* interrupts the user sends
MaxRuns == 2        \* runs of sync_task over one working directory
MaxEntries == 3     \* entries of the crate directory, candidates of a fed run
MaxWork == 2        \* candidates of a run of exec_parallel

(***************************************************************************)
(* Small helpers on sequences and bags.                                    *)
(***************************************************************************)
Range(s) == {s[i] : i \in DOMAIN s}

Min(a, b) == IF a <= b THEN a ELSE b

\* number of positions of s whose element satisfies downloads = d
CountDownloads(s, d) == Cardinality({i \in DOMAIN s : s[i].downloads = d})

\* number of positions of s whose element has crate_id = id
CountIds(s, id) == Cardinality({i \in DOMAIN s : s[i].crate_id = id})

(***************************************************************************)
(* CrateByPopularity and std's BinaryHeap over it.  The Ord of             *)
(* CrateByPopularity is reversed on downloads, so the max-heap keeps the   *)
(* least downloaded crate at the top.  Positions are 0-based as in the     *)
(* Vec; the sequence index is position + 1.                                *)
(***************************************************************************)
\* the comparison without the reversal: the heap would keep the most
\* downloaded crate at the top
cmp_le_unreversed(a, b) == a.downloads <= b.downloads

\* a <= b under CrateByPopularity's partial_cmp (other.downloads.cmp(self.downloads))
cmp_le(a, b) == a.downloads >= b.downloads

SwapAt(data, p, q) == [data EXCEPT ![p + 1] = data[q + 1], ![q + 1] = data[p + 1]]

RECURSIVE sift_up(_, _, _)
sift_up(data, start, pos) ==
    IF pos > start
    THEN LET parent == (pos - 1) \div 2 IN
         IF cmp_le(data[pos + 1], data[parent + 1])
         THEN data
         ELSE sift_up(SwapAt(data, pos, parent), start, parent)
    ELSE data

heap_push(data, item) == sift_up(Append(data, item), 0, Len(data))

\* the hole moves to the greater child until it has no two children left,
\* then to a single last child; returns <<data, final position>>
RECURSIVE sift_down_hole(_, _)
sift_down_hole(data, pos) ==
    LET end == Len(data)
        child == 2 * pos + 1
    IN  IF end >= 2 /\ child <= end - 2
        THEN LET c == IF cmp_le(data[child + 1], data[child + 2])
                      THEN child + 1 ELSE child
             IN sift_down_hole(SwapAt(data, pos, c), c)
        ELSE IF child = end - 1
             THEN <<SwapAt(data, pos, child), child>>
             ELSE <<data, pos>>

sift_down_to_bottom(data, pos) ==
    LET r == sift_down_hole(data, pos) IN sift_up(r[1], pos, r[2])

heap_peek(data) == data[1]

\* BinaryHeap::pop on a non-empty heap: <<popped item, remaining data>>
heap_pop(data) ==
    LET last == data[Len(data)]
        rest == SubSeq(data, 1, Len(data) - 1)
    IN  IF rest = <<>>
        THEN <<last, rest>>
        ELSE <<rest[1], sift_down_to_bottom([rest EXCEPT ![1] = last], 0)>>

(***************************************************************************)
(* ConsumerOpts and the records of the versions table.  The string tests   *)
(* of consume (substring exclusion, URL validation, path validation) are   *)
(* carried by the record as their verdicts.                                *)
(***************************************************************************)
min_size == 1

EligibleEntries ==
    [crate_id : 1..MaxIds, downloads : 1..MaxDownloads, crate_size : {min_size},
     name_excluded : {FALSE}, repo_excluded : {FALSE},
     repo_valid : {TRUE}, name_valid : {TRUE}]

RejectedEntries ==
    {[crate_id |-> 1, downloads |-> MaxDownloads, crate_size |-> min_size - 1,
      name_excluded |-> FALSE, repo_excluded |-> FALSE,
      repo_valid |-> TRUE, name_valid |-> TRUE],
     [crate_id |-> 1, downloads |-> MaxDownloads, crate_size |-> min_size,
      name_excluded |-> TRUE, repo_excluded |-> FALSE,
      repo_valid |-> TRUE, name_valid |-> TRUE],
     [crate_id |-> 1, downloads |-> MaxDownloads, crate_size |-> min_size,
      name_excluded |-> FALSE, repo_excluded |-> TRUE,
      repo_valid |-> TRUE, name_valid |-> TRUE],
     [crate_id |-> 1, downloads |-> MaxDownloads, crate_size |-> min_size,
      name_excluded |-> FALSE, repo_excluded |-> FALSE,
      repo_valid |-> FALSE, name_valid |-> TRUE],
     [crate_id |-> 1, downloads |-> MaxDownloads, crate_size |-> min_size,
      name_excluded |-> FALSE, repo_excluded |-> FALSE,
      repo_valid |-> TRUE, name_valid |-> FALSE]}

Entries == EligibleEntries \cup RejectedEntries

\* the eligible records seen so far are kept as a bag over (crate_id, downloads)
Keys == (1..MaxIds) \X (1..MaxDownloads)

Key(e) == <<e.crate_id, e.downloads>>

EntryOf(k) ==
    [crate_id |-> k[1], downloads |-> k[2], crate_size |-> min_size,
     name_excluded |-> FALSE, repo_excluded |-> FALSE,
     repo_valid |-> TRUE, name_valid |-> TRUE]

EmptyBag == [k \in Keys |-> 0]

BagAdd(b, k) == [b EXCEPT ![k] = @ + 1]

RECURSIVE SumOver(_, _)
SumOver(f, S) ==
    IF S = {} THEN 0
    ELSE LET x == CHOOSE y \in S : TRUE IN f[x] + SumOver(f, S \ {x})

BagSize(b) == SumOver(b, DOMAIN b)

\* how many records of bag b carry download count d / crate id id
BagDownloads(b, d) == SumOver(b, {k \in DOMAIN b : k[2] = d})

BagIds(b, id) == SumOver(b, {k \in DOMAIN b : k[1] = id})

\* passes the size, name, repository, URL and crate-name filters
Eligible(e) ==
    /\ ~(min_size > e.crate_size)
    /\ ~e.name_excluded
    /\ ~e.repo_excluded
    /\ e.repo_valid
    /\ e.name_valid

CrateByPopularity(e) == [downloads |-> e.downloads, crate_id |-> e.crate_id]

NewConsumer(k) == [max_crates |-> k, crates |-> <<>>, contained_crate_ids |-> {}]

\* Consumer::consume: the Consumer after the call and how the call ended
consume(self, e) ==
    IF min_size > e.crate_size THEN [self |-> self, ret |-> "Ok", how |-> "too_small"]
    ELSE IF e.name_excluded THEN [self |-> self, ret |-> "Ok", how |-> "name_excluded"]
    ELSE IF e.repo_excluded THEN [self |-> self, ret |-> "Ok", how |-> "repo_excluded"]
    ELSE IF ~e.repo_valid THEN [self |-> self, ret |-> "Ok", how |-> "repo_invalid"]
    ELSE IF e.crate_id \in self.contained_crate_ids
         THEN [self |-> self, ret |-> "Ok", how |-> "id_contained"]
    ELSE IF ~e.name_valid THEN [self |-> self, ret |-> "Ok", how |-> "name_invalid"]
    ELSE IF Len(self.crates) >= self.max_crates
         THEN IF self.crates = <<>>
              THEN [self |-> self, ret |-> "Err", how |-> "nothing_to_peek"]
              ELSE IF e.downloads > heap_peek(self.crates).downloads
                   THEN LET p == heap_pop(self.crates) IN
                        [self |-> [self EXCEPT
                            !.contained_crate_ids =
                                (@ \ {p[1].crate_id}) \cup {e.crate_id},
                            !.crates = heap_push(p[2], CrateByPopularity(e))],
                         ret |-> "Ok", how |-> "replaced"]
                   ELSE [self |-> self, ret |-> "Ok", how |-> "discarded"]
         ELSE [self |-> [self EXCEPT
                   !.crates = heap_push(@, CrateByPopularity(e))],
               ret |-> "Ok", how |-> "pushed"]

(***************************************************************************)
(* SpecConsumer: records arrive one by one at consumer.  SpecOrders:       *)
(* consumer_b takes the same records later, in any order.                  *)
(***************************************************************************)
IdleConsumer ==
    /\ consumer = NewConsumer(0)
    /\ consumer_b = NewConsumer(0)
    /\ pending_b = EmptyBag
    /\ fed = EmptyBag
    /\ last_consume = "none"

InitConsumer ==
    /\ \E k \in 0..MaxK :
          /\ consumer = NewConsumer(k)
          /\ consumer_b = NewConsumer(k)
    /\ pending_b = EmptyBag
    /\ fed = EmptyBag
    /\ last_consume = "none"

\* parse_versions_xml hands the next record to Consumer::consume; an Err
\* leaves the loop
Consume(e) ==
    /\ BagSize(fed) < MaxRecords
    /\ last_consume # "nothing_to_peek"
    /\ LET r == consume(consumer, e) IN
          /\ consumer' = r.self
          /\ last_consume' = r.how
    /\ IF Eligible(e)
       THEN /\ fed' = BagAdd(fed, Key(e))
            /\ pending_b' = BagAdd(pending_b, Key(e))
       ELSE UNCHANGED <<fed, pending_b>>
    /\ UNCHANGED consumer_b
    /\ UNCHANGED notConsumer

\* the second arrival order: any record not yet given to consumer_b
ConsumeOther(k) ==
    /\ pending_b[k] > 0
    /\ consumer_b' = consume(consumer_b, EntryOf(k)).self
    /\ pending_b' = [pending_b EXCEPT ![k] = @ - 1]
    /\ UNCHANGED <<consumer, fed, last_consume>>
    /\ UNCHANGED notConsumer

NextConsumer == \E e \in Entries : Consume(e)

\* the same records reach a second Consumer in any order
NextOrders ==
    \/ \E e \in Entries : Consume(e)
    \/ \E k \in Keys : ConsumeOther(k)

(***************************************************************************)
(* analyze.rs: analyze_crate.  A formatter invocation ends as              *)
(* RustfmtOutput::Success, Diff(text) or Failure(error);                   *)
(* run_local_rustfmt_build turns it into Ok(None), Ok(Some(text)) or       *)
(* Err(error).  An Option is a sequence of length 0 or 1.                  *)
(***************************************************************************)
None == <<>>

Some(x) == <<x>>

DiffTexts == {"X", "Y"}

RustfmtOutput ==
    {[kind |-> "Success", text |-> ""], [kind |-> "Failure", text |-> "E"]}
        \cup [kind : {"Diff"}, text : DiffTexts]

\* RustfmtAnalysis { diff_output, rustfmt_error }
RustfmtAnalysis(out) ==
    [diff_output |-> IF out.kind = "Diff" THEN Some(out.text) ELSE None,
     rustfmt_error |-> IF out.kind = "Failure" THEN Some(out.text) ELSE None]

\* the flag with the test for an upstream diff left out of the branch of
\* a clean local run
classify_ignoring_upstream(up, loc) ==
    IF loc.kind = "Success" THEN FALSE
    ELSE IF loc.kind = "Diff"
         THEN IF up.kind = "Diff" THEN up.text # loc.text ELSE TRUE
         ELSE FALSE

\* the match on the local output (analyze.rs 101-142): whether it sets
\* ca.diverving_diff
classify(up, loc) ==
    LET upstream_diff_output == RustfmtAnalysis(up).diff_output IN
    IF loc.kind = "Success"
    THEN upstream_diff_output # None
    ELSE IF loc.kind = "Diff"
         THEN IF upstream_diff_output # None
              THEN upstream_diff_output[1] # loc.text
              ELSE TRUE
         ELSE FALSE

\* the DivergingDiff of a CrateAnalysis.  report.rs declares the enum and
\* reads it; the code that builds one is in no file at hand (analyze.rs
\* sets the flag).  The class is the one the specification names for the
\* outcomes, diverged exactly where analyze.rs sets the flag: UpstreamOnly
\* is the reference build alone with a diff, LocalOnly the candidate build
\* alone, DiffBetween two diffs of different text
DivergingDiff(up, loc) ==
    IF ~classify(up, loc) THEN "None"
    ELSE IF up.kind = "Diff" /\ loc.kind = "Diff" THEN "DiffBetween"
    ELSE IF loc.kind = "Diff" THEN "LocalOnly"
    ELSE "UpstreamOnly"

\* DivergingDiff::diverged
diverged(class) == class # "None"

CrateAnalysis(ident, up, loc) ==
    [ident |-> ident,
     diverving_diff |-> classify(up, loc),
     diverging_diff |-> DivergingDiff(up, loc),
     upstream_rustfmt_analysis |-> RustfmtAnalysis(up),
     local_rustfmt_analysis |-> RustfmtAnalysis(loc)]

(***************************************************************************)
(* The targets handed to analyze_crate and the workspaces read_members     *)
(* finds in them.  Two targets of the same repository share a checkout.    *)
(***************************************************************************)
Repositories == {"repo_a", "repo_b"}

Workspaces == {"ws_1", "ws_2"}

Tasks == 1..MaxTasks

\* what read_members returns: Err, Ok(None), or Ok(Some(roots)).  The roots
\* are drawn one at a time as the for loop reaches them (visited counts the
\* roots all loops have taken); a wildcard member over an empty directory
\* gives no root at all.
ReadMembersResults == {"Err", "None", "Some"}

\* format!("{}:{}", repository, workspace)
Ident(repository, workspace) == <<repository, workspace>>

Idents == Repositories \X Workspaces

NewTask(repository) ==
    [pc |-> "read_members", repository |-> repository,
     workspace |-> "", upstream |-> None, analyses |-> 0, ret |-> "none"]

IdleAnalyze ==
    /\ task = [t \in Tasks |-> NewTask("repo_a")]
    /\ seen = {}
    /\ visited = 0
    /\ fmt_runs = [i \in Idents |-> 0]
    /\ insert_log = [i \in Idents |-> <<>>]
    /\ analysed = [i \in Idents |-> 0]
    /\ ca = None

\* The calls are interchangeable and so are the two repositories: a start is
\* told by how many calls target the same repository as the first one.
InitAnalyze ==
    /\ \E n \in Tasks :
          task = [t \in Tasks |-> NewTask(IF t <= n THEN "repo_a" ELSE "repo_b")]
    /\ seen = {}
    /\ visited = 0
    /\ fmt_runs = [i \in Idents |-> 0]
    /\ insert_log = [i \in Idents |-> <<>>]
    /\ analysed = [i \in Idents |-> 0]
    /\ ca = None

CurIdent(t) == Ident(task[t].repository, task[t].workspace)

\* back at the head of the for loop
Continue(tk) == [tk EXCEPT !.pc = "loop", !.workspace = "", !.upstream = None]

\* read_members(&target.repo_root).await?
ReadMembers(t, r) ==
    /\ task[t].pc = "read_members"
    /\ task' = [task EXCEPT ![t] =
          IF r = "Err" THEN [@ EXCEPT !.pc = "done", !.ret = "Err"]
          ELSE IF r = "None" THEN [@ EXCEPT !.pc = "done", !.ret = "Ok"]
          ELSE [@ EXCEPT !.pc = "loop"]]
    /\ UNCHANGED <<seen, visited, fmt_runs, insert_log, analysed, ca>>
    /\ UNCHANGED notAnalyze

\* an insert that always reports the identity as new
seen_insert_always_new(set, ident) == [set |-> set \cup {ident}, new |-> TRUE]

\* DashSet::insert: the set afterwards and whether the identity was new
seen_insert(set, ident) == [set |-> set \cup {ident}, new |-> ident \notin set]

\* for workspace in members.roots { if !seen.insert(ident) { continue; } ..
NextMember(t, w) ==
    /\ task[t].pc = "loop"
    /\ visited < MaxRoots
    /\ visited' = visited + 1
    /\ LET ident == Ident(task[t].repository, w)
           r == seen_insert(seen, ident)
       IN /\ seen' = r.set
          /\ insert_log' = [insert_log EXCEPT ![ident] = Append(@, r.new)]
          /\ task' = [task EXCEPT ![t] =
                IF r.new
                THEN [@ EXCEPT !.workspace = w, !.pc = "check_src"]
                ELSE @]
    /\ UNCHANGED <<fmt_runs, analysed, ca>>
    /\ UNCHANGED notAnalyze

\* members.roots is exhausted: Ok(analyses)
Return(t) ==
    /\ task[t].pc = "loop"
    /\ task' = [task EXCEPT ![t] = [@ EXCEPT !.pc = "done", !.ret = "Ok"]]
    /\ UNCHANGED <<seen, visited, fmt_runs, insert_log, analysed, ca>>
    /\ UNCHANGED notAnalyze

\* tokio::fs::try_exists(&src).await.with_context(..)?: an Err returns from
\* analyze_crate and drops analyses
CheckSrc(t, r) ==
    /\ task[t].pc = "check_src"
    /\ task' = [task EXCEPT ![t] =
          IF r = "Err" THEN [@ EXCEPT !.pc = "done", !.ret = "Err", !.analyses = 0]
          ELSE IF r = "false" THEN Continue(@)
          ELSE [@ EXCEPT !.pc = "upstream"]]
    /\ UNCHANGED <<seen, visited, fmt_runs, insert_log, analysed, ca>>
    /\ UNCHANGED notAnalyze

\* a failed upstream run ends the workspace: the local build is not run
RunUpstream_giving_up_on_error(t, out) ==
    /\ task[t].pc = "upstream"
    /\ fmt_runs' = [fmt_runs EXCEPT ![CurIdent(t)] = @ + 1]
    /\ task' = [task EXCEPT ![t] =
          IF out.kind = "Failure" THEN Continue(@)
          ELSE [@ EXCEPT !.upstream = Some(out), !.pc = "local"]]
    /\ UNCHANGED <<seen, visited, insert_log, analysed, ca>>
    /\ UNCHANGED notAnalyze

\* the upstream build's formatter runs on the workspace
RunUpstream(t, out) ==
    /\ task[t].pc = "upstream"
    /\ fmt_runs' = [fmt_runs EXCEPT ![CurIdent(t)] = @ + 1]
    /\ task' = [task EXCEPT ![t] = [@ EXCEPT !.upstream = Some(out), !.pc = "local"]]
    /\ UNCHANGED <<seen, visited, insert_log, analysed, ca>>
    /\ UNCHANGED notAnalyze

\* the local build's formatter runs, the outcomes are compared and the
\* analysis is pushed
RunLocal(t, out) ==
    /\ task[t].pc = "local"
    /\ ca' = Some(CrateAnalysis(CurIdent(t), task[t].upstream[1], out))
    /\ analysed' = [analysed EXCEPT ![CurIdent(t)] = @ + 1]
    /\ task' = [task EXCEPT ![t] = Continue([@ EXCEPT !.analyses = @ + 1])]
    /\ UNCHANGED <<seen, visited, fmt_runs, insert_log>>
    /\ UNCHANGED notAnalyze

NextAnalyze ==
    \/ \E t \in Tasks, r \in ReadMembersResults : ReadMembers(t, r)
    \/ \E t \in Tasks, w \in Workspaces : NextMember(t, w)
    \/ \E t \in Tasks : Return(t)
    \/ \E t \in Tasks, r \in {"Err", "false", "true"} : CheckSrc(t, r)
    \/ \E t \in Tasks, out \in RustfmtOutput : RunUpstream(t, out)
    \/ \E t \in Tasks, out \in RustfmtOutput : RunLocal(t, out)

(***************************************************************************)
(* lib.rs: analysis_task.  Each received WorkItem is spawned as a task and *)
(* its JoinHandle pushed into unordered; at the cap one handle is awaited  *)
(* before the next recv.  A spawned task runs on the runtime on its own    *)
(* and finishes at any time with one of the four values on_analysis        *)
(* matches on.                                                             *)
(***************************************************************************)
Jobs == 1..MaxItems

\* Ok(Ok(Some(res))), Ok(Ok(None)), Ok(Err(e)), Err(JoinError)
JobResults == {"Some", "None", "Err", "JoinErr"}

\* tokio::sync::mpsc::channel(32) of CrateAnalysis
ResultChannelCapacity == 32

\* the cap test with > in place of >=
at_capacity_off_by_one(len, max_concurrent) == len > max_concurrent

\* unordered.len() >= max_concurrent.get()
at_capacity(len, max_concurrent) == len >= max_concurrent

\* on_analysis without its send
on_analysis_dropping(value, receiver_alive) == [sent |-> FALSE, logged |-> FALSE]

\* on_analysis sending whatever the task ended with
on_analysis_forwarding_errors(value, receiver_alive) ==
    IF value = "None" THEN [sent |-> FALSE, logged |-> FALSE]
    ELSE [sent |-> receiver_alive, logged |-> ~receiver_alive]

\* on_analysis: whether the value was sent on the result channel and
\* whether an error was logged
on_analysis(value, receiver_alive) ==
    IF value = "Some"
    THEN [sent |-> receiver_alive, logged |-> ~receiver_alive]
    ELSE IF value = "None" THEN [sent |-> FALSE, logged |-> FALSE]
    ELSE [sent |-> FALSE, logged |-> TRUE]

NewJob == [state |-> "unspawned", result |-> ""]

\* sending is the job whose result on_analysis is sending while it waits
\* for room on the result channel, resume the place the loop goes on at
NewPool(n, m) ==
    [pc |-> "recv", max_concurrent |-> n, items |-> m, received |-> 0,
     logged |-> {}, sending |-> 0, resume |-> "recv"]

\* the result channel and the report's side of it: adding is 1 while
\* add_result is suspended on a result it took, cut counts the results
\* whose add_result was dropped there
NewResults(k) ==
    [len |-> k, tallied |-> 0, receiver |-> "alive", adding |-> 0, cut |-> 0]

\* results of earlier WorkItems still on the result channel when the model
\* takes up the run: with one analysis at a time unordered is empty
\* between two items, whatever the drain has left on the channel
Backlogs(n) == IF n = 1 THEN {0, ResultChannelCapacity} ELSE {0}

IdlePool ==
    /\ pool = NewPool(1, 0)
    /\ job = [j \in Jobs |-> NewJob]
    /\ unordered = {}
    /\ joined = [j \in Jobs |-> 0]
    /\ forwarded = [j \in Jobs |-> 0]
    /\ results = NewResults(0)
    /\ orch = "draining"

InitPool ==
    /\ \E n \in 1..MaxConcurrent, m \in 0..MaxItems :
          /\ pool = NewPool(n, m)
          /\ \E k \in Backlogs(n) : results = NewResults(k)
    /\ job = [j \in Jobs |-> NewJob]
    /\ unordered = {}
    /\ joined = [j \in Jobs |-> 0]
    /\ forwarded = [j \in Jobs |-> 0]
    /\ orch = "draining"

Running == {j \in Jobs : job[j].state = "running"}

\* recv.recv() yields an item: spawn it, push its handle, test the cap
PoolRecv ==
    /\ pool.pc = "recv"
    /\ pool.received < pool.items
    /\ LET j == pool.received + 1 IN
          /\ job' = [job EXCEPT ![j].state = "running"]
          /\ unordered' = unordered \cup {j}
          /\ pool' = [pool EXCEPT
                !.received = j,
                !.pc = IF at_capacity(Cardinality(unordered \cup {j}),
                                      pool.max_concurrent)
                       THEN "next" ELSE "recv"]
    /\ UNCHANGED <<joined, forwarded, results, orch>>
    /\ UNCHANGED notPool

\* recv.recv() yields None: every sender of the WorkItem channel is gone
PoolRecvClosed ==
    /\ pool.pc = "recv"
    /\ pool.received = pool.items
    /\ pool' = [pool EXCEPT !.pc = "drain"]
    /\ UNCHANGED <<job, unordered, joined, forwarded, results, orch>>
    /\ UNCHANGED notPool

\* a spawned analysis ends: with a result, without one, with an error, or
\* by a panic the JoinHandle reports
JobFinish(j, res) ==
    /\ job[j].state = "running"
    /\ job' = [job EXCEPT ![j] = [state |-> "finished", result |-> res]]
    /\ UNCHANGED <<pool, unordered, joined, forwarded, results, orch>>
    /\ UNCHANGED notPool

\* send.send(res).await waits while the channel is full and its receiver
\* is alive
send_waits(value, res) ==
    value = "Some" /\ res.receiver = "alive" /\ res.len >= ResultChannelCapacity

\* unordered.next().await yields the handle of a finished task, which
\* on_analysis then handles in the same poll, unless its send has to wait
\* for room on the result channel: then the task is suspended in
\* on_analysis with the handle taken
Join(j, pc) ==
    LET r == on_analysis(job[j].result, results.receiver = "alive") IN
    /\ j \in unordered
    /\ job[j].state = "finished"
    /\ unordered' = unordered \ {j}
    /\ joined' = [joined EXCEPT ![j] = @ + 1]
    /\ IF send_waits(job[j].result, results)
       THEN /\ pool' = [pool EXCEPT !.pc = "send", !.sending = j, !.resume = pc]
            /\ UNCHANGED <<forwarded, results>>
       ELSE /\ forwarded' = [forwarded EXCEPT ![j] = @ + (IF r.sent THEN 1 ELSE 0)]
            /\ results' = [results EXCEPT !.len = @ + (IF r.sent THEN 1 ELSE 0)]
            /\ pool' = [pool EXCEPT !.pc = pc,
                                    !.logged = IF r.logged THEN @ \cup {j} ELSE @]
    /\ UNCHANGED <<job, orch>>
    /\ UNCHANGED notPool

\* the suspended send is polled again with room on the channel, or with
\* its receiver gone: the result is sent, or the failure logged
PoolSend ==
    LET j == pool.sending
        r == on_analysis(job[j].result, results.receiver = "alive") IN
    /\ pool.pc = "send"
    /\ ~send_waits(job[j].result, results)
    /\ forwarded' = [forwarded EXCEPT ![j] = @ + (IF r.sent THEN 1 ELSE 0)]
    /\ results' = [results EXCEPT !.len = @ + (IF r.sent THEN 1 ELSE 0)]
    /\ pool' = [pool EXCEPT !.pc = pool.resume, !.sending = 0,
                            !.logged = IF r.logged THEN @ \cup {j} ELSE @]
    /\ UNCHANGED <<job, unordered, joined, orch>>
    /\ UNCHANGED notPool

\* at the cap: await one handle, then back to recv
PoolJoinOne(j) == pool.pc = "next" /\ Join(j, "recv")

\* while let Some(res) = unordered.next().await
PoolDrainOne(j) == pool.pc = "drain" /\ Join(j, "drain")

\* unordered.next() yields None: analysis_task returns and drops send
PoolDrained ==
    /\ pool.pc = "drain"
    /\ unordered = {}
    /\ pool' = [pool EXCEPT !.pc = "done"]
    /\ UNCHANGED <<job, unordered, joined, forwarded, results, orch>>
    /\ UNCHANGED notPool

\* drain_analyses: analysis_out_recv.recv() yields a result and
\* add_result is awaited on it.  add_result ends within the poll when it
\* has no file to write; with write_outputs and something to dump it is
\* suspended at a file operation with the result taken
DrainAnalyses(suspends) ==
    /\ orch = "draining"
    /\ results.adding = 0
    /\ results.len > 0
    /\ results' = IF suspends
                  THEN [results EXCEPT !.len = @ - 1, !.adding = 1]
                  ELSE [results EXCEPT !.len = @ - 1, !.tallied = @ + 1]
    /\ UNCHANGED <<pool, job, unordered, joined, forwarded, orch>>
    /\ UNCHANGED notPool

\* the suspended add_result is polled to its end
AddResultEnd ==
    /\ orch = "draining"
    /\ results.adding = 1
    /\ results' = [results EXCEPT !.adding = 0, !.tallied = @ + 1]
    /\ UNCHANGED <<pool, job, unordered, joined, forwarded, orch>>
    /\ UNCHANGED notPool

\* analysis_out_recv.recv() yields None: with_stop returns Some(())
DrainFinished ==
    /\ orch = "draining"
    /\ pool.pc = "done"
    /\ results.adding = 0
    /\ results.len = 0
    /\ orch' = "finished"
    /\ results' = [results EXCEPT !.receiver = "dropped"]
    /\ UNCHANGED <<pool, job, unordered, joined, forwarded>>
    /\ UNCHANGED notPool

\* the with_stop around drain_analyses returns None: the drain future is
\* dropped, and with it the result receiver and an add_result that was
\* suspended
UserStop ==
    /\ orch = "draining"
    /\ orch' = "stopped"
    /\ results' = [results EXCEPT !.receiver = "dropped", !.adding = 0,
                                  !.cut = @ + results.adding]
    /\ UNCHANGED <<pool, job, unordered, joined, forwarded>>
    /\ UNCHANGED notPool

\* analysis_stop_send.stop(): the with_stop around analysis_task returns
\* None and drops it where it is suspended; the spawned tasks run on
AnalysisStop ==
    /\ orch = "stopped"
    /\ pool.pc \notin {"done", "stopped"}
    /\ pool' = [pool EXCEPT !.pc = "stopped"]
    /\ unordered' = {}
    /\ UNCHANGED <<job, joined, forwarded, results, orch>>
    /\ UNCHANGED notPool

PoolProgress ==
    \/ PoolRecv
    \/ PoolRecvClosed
    \/ \E j \in Jobs, res \in JobResults : JobFinish(j, res)
    \/ \E j \in Jobs : PoolJoinOne(j)
    \/ \E j \in Jobs : PoolDrainOne(j)
    \/ PoolSend
    \/ PoolDrained

\* the steps of drain_analyses
DrainProgress ==
    \/ \E suspends \in BOOLEAN : DrainAnalyses(suspends)
    \/ AddResultEnd
    \/ DrainFinished

NextPool ==
    \/ PoolProgress
    \/ DrainProgress
    \/ UserStop
    \/ AnalysisStop

(***************************************************************************)
(* sync.rs: the stop channel.  stop() sends a fresh acknowledgment sender  *)
(* through a oneshot and awaits the acknowledgment; with_stop selects      *)
(* between the receiving end of that oneshot and the operation.            *)
(* tokio::select! draws the branch it polls first at random on every poll  *)
(* and the first branch found ready wins.                                  *)
(***************************************************************************)
\* branch 0 is `&mut self.recv`, branch 1 is `future`
Branches == {0, 1}

select(start, recv_ready, future_ready) ==
    IF start = 0
    THEN IF recv_ready THEN "recv"
         ELSE IF future_ready THEN "future" ELSE "pending"
    ELSE IF future_ready THEN "future"
         ELSE IF recv_ready THEN "recv" ELSE "pending"

\* the receiving end is ready with Ok(sender) once the request was sent and
\* with Err once the StopSender was dropped
recv_ready(chan) == chan \in {"request", "closed"}

\* one poll of with_stop: what it returns, whether it sent the
\* acknowledgment, and the request channel afterwards
with_stop(start, chan, future_ready) ==
    LET b == select(start, recv_ready(chan), future_ready) IN
    [ret |-> IF b = "recv" THEN "None" ELSE IF b = "future" THEN "Some" ELSE "Pending",
     acked |-> b = "recv" /\ chan = "request",
     chan |-> IF b = "recv" /\ chan = "request" THEN "taken" ELSE chan]

NotSent == [n |-> 0, state |-> "idle", op |-> "none", polled |-> FALSE]

NewCall(n) ==
    [n |-> n, state |-> "pending", op |-> "pending", acks |-> 0,
     seen |-> <<>>, polled |-> FALSE]

NoCall == [NewCall(0) EXCEPT !.state = "idle"]

NewStopChannel ==
    /\ stop_chan = "empty"
    /\ stop_rx = "alive"
    /\ ack = "none"
    /\ stopper = "idle"
    /\ sent_when = NotSent

IdleStop == NewStopChannel /\ call = NoCall

InitStop == NewStopChannel /\ call = NoCall

\* the owner of the receiver calls with_stop: first, or again after Some
CallWithStop ==
    /\ stop_rx = "alive"
    /\ call.state \in {"idle", "Some"}
    /\ call.n < MaxCalls
    /\ call' = NewCall(call.n + 1)
    /\ UNCHANGED <<stop_chan, stop_rx, ack, stopper, sent_when>>
    /\ UNCHANGED notStop

\* the operation becomes able to complete at its next poll
OpComplete ==
    /\ call.state = "pending"
    /\ call.op = "pending"
    /\ call' = [call EXCEPT !.op = "ready"]
    /\ UNCHANGED <<stop_chan, stop_rx, ack, stopper, sent_when>>
    /\ UNCHANGED notStop

\* the runtime polls with_stop
Poll(start) ==
    /\ call.state = "pending"
    /\ LET w == with_stop(start, stop_chan, call.op = "ready") IN
          /\ stop_chan' = w.chan
          /\ ack' = IF w.acked THEN "sent" ELSE ack
          /\ call' = [call EXCEPT
                !.state = IF w.ret = "Pending" THEN "pending" ELSE w.ret,
                !.op = IF w.ret = "Some" THEN "taken"
                       ELSE IF w.ret = "None" THEN "dropped" ELSE @,
                !.acks = @ + (IF w.acked THEN 1 ELSE 0),
                !.seen = <<stop_chan, call.op>>,
                !.polled = TRUE]
    /\ UNCHANGED <<stop_rx, stopper, sent_when>>
    /\ UNCHANGED notStop

\* StopSender::stop up to recv.await: chan.send(send) fails when the
\* receiver is gone
SenderStop ==
    /\ stopper = "idle"
    /\ IF stop_rx = "dropped"
       THEN /\ stopper' = "false"
            /\ UNCHANGED <<stop_chan, ack>>
       ELSE /\ stopper' = "awaiting"
            /\ stop_chan' = "request"
            /\ ack' = "pending"
    /\ sent_when' = [n |-> call.n, state |-> call.state, op |-> call.op,
                     polled |-> call.polled]
    /\ UNCHANGED <<stop_rx, call>>
    /\ UNCHANGED notStop

\* stop() returning true however its acknowledgment channel was resolved
SenderResume_always_true ==
    /\ stopper = "awaiting"
    /\ ack \in {"sent", "dropped"}
    /\ stopper' = "true"
    /\ UNCHANGED <<stop_chan, stop_rx, ack, call, sent_when>>
    /\ UNCHANGED notStop

\* recv.await.is_ok()
SenderResume ==
    /\ stopper = "awaiting"
    /\ ack \in {"sent", "dropped"}
    /\ stopper' = IF ack = "sent" THEN "true" ELSE "false"
    /\ UNCHANGED <<stop_chan, stop_rx, ack, call, sent_when>>
    /\ UNCHANGED notStop

\* the StopSender is dropped without stop() having been called
SenderDrop ==
    /\ stopper = "idle"
    /\ stopper' = "dropped"
    /\ stop_chan' = "closed"
    /\ UNCHANGED <<stop_rx, ack, call, sent_when>>
    /\ UNCHANGED notStop

\* the owner drops the StopReceiver between calls; a request still in the
\* channel is dropped with it, and its acknowledgment sender too
ReceiverDrop ==
    /\ stop_rx = "alive"
    /\ call.state # "pending"
    /\ stop_rx' = "dropped"
    /\ ack' = IF stop_chan = "request" THEN "dropped" ELSE ack
    /\ UNCHANGED <<stop_chan, stopper, call, sent_when>>
    /\ UNCHANGED notStop

NextStop ==
    \/ CallWithStop
    \/ OpComplete
    \/ \E start \in Branches : Poll(start)
    \/ SenderStop
    \/ SenderResume
    \/ SenderDrop
    \/ ReceiverDrop

(***************************************************************************)
(* git.rs: run_sync_task spawns with_stop(sync_task(..)).  sync_task       *)
(* suspends where it awaits a file-system or git step (ensure_at, the      *)
(* join of the three checks, sync_existing) and where the WorkItem channel *)
(* is full; a poll runs it from where it is suspended to the next such     *)
(* point or to its return.                                                 *)
(***************************************************************************)
CandidateLists == UNION {[1..n -> BOOLEAN] : n \in 0..MaxCandidates}

EnsureAtResults == {"Ok", "Err"}

\* (find_remote_head_branch, has_top_level_cargo_toml, has_rust_toolchain)
JoinResults ==
    [head_branch : {"Ok", "Err"},
     top_level_cargo_toml : {"true", "false", "Err"},
     rust_toolchain_toml : {"true", "false", "Err"}]

SyncExistingResults == {"Ok", "Err"}

NewSync == [pc |-> "loop", idx |-> 1, ext |-> None, ret |-> "none"]

NewWork(cap) == [len |-> 0, cap |-> cap, receiver |-> "alive", emitted |-> 0]

\* continue: on to the next candidate
next_candidate(st) ==
    [st EXCEPT !.sync.pc = "loop", !.sync.idx = @ + 1, !.sync.ext = None]

return(st, r) == [st EXCEPT !.sync.pc = "done", !.sync.ret = r, !.sync.ext = None]

await(st, pc) == [st EXCEPT !.sync.pc = pc, !.sync.ext = None]

\* one poll of sync_task from st = [sync, work]
RECURSIVE sync_task(_)
sync_task(st) ==
    LET pc == st.sync.pc
        ext == st.sync.ext
    IN
    IF pc = "loop"
    THEN IF st.sync.idx > Len(crates) THEN return(st, "Ok")
         ELSE IF ~crates[st.sync.idx] THEN sync_task(next_candidate(st))
         ELSE await(st, "ensure_at")
    ELSE IF pc = "ensure_at"
    THEN IF ext = None THEN st
         ELSE IF ext[1] = "Err" THEN sync_task(next_candidate(st))
         ELSE await(st, "join")
    ELSE IF pc = "join"
    THEN IF ext = None THEN st
         ELSE IF ext[1].head_branch = "Err" THEN sync_task(next_candidate(st))
         ELSE IF ext[1].top_level_cargo_toml = "Err" THEN return(st, "Err")
         ELSE IF ext[1].top_level_cargo_toml = "false"
              THEN sync_task(next_candidate(st))
         ELSE IF ext[1].rust_toolchain_toml = "Err" THEN return(st, "Err")
         ELSE IF ext[1].rust_toolchain_toml = "true"
              THEN sync_task(next_candidate(st))
         ELSE IF should_sync THEN await(st, "sync_existing")
         ELSE sync_task(await(st, "send"))
    ELSE IF pc = "sync_existing"
    THEN IF ext = None THEN st ELSE sync_task(await(st, "send"))
    ELSE IF pc = "send"
    THEN IF st.work.receiver = "dropped" THEN return(st, "Err")
         ELSE IF st.work.len < st.work.cap
              THEN sync_task(next_candidate(
                      [st EXCEPT !.work.len = @ + 1, !.work.emitted = @ + 1]))
              ELSE st
    ELSE st

IdleStage ==
    /\ crates = <<>>
    /\ should_sync = FALSE
    /\ sync = NewSync
    /\ work = NewWork(1)

\* run_sync_task has spawned the task: with_stop is called, nothing is
\* polled yet
InitStage ==
    /\ crates \in CandidateLists
    /\ should_sync \in BOOLEAN
    /\ sync = NewSync
    /\ \E cap \in 1..MaxClones : work = NewWork(cap)
    /\ NewStopChannel
    /\ call = NewCall(1)

\* the step sync_task awaits at pc ends with r
StepDone(pc, r) ==
    /\ call.state = "pending"
    /\ sync.pc = pc
    /\ sync.ext = None
    /\ sync' = [sync EXCEPT !.ext = Some(r)]
    /\ UNCHANGED <<crates, should_sync, work>>
    /\ UNCHANGED stopVars
    /\ UNCHANGED notStage

\* ensure_at: the directory exists or the clone ends
EnsureAtDone(r) == StepDone("ensure_at", r)

\* tokio::join! of the head branch and the two manifest checks
JoinDone(r) == StepDone("join", r)

\* sync_existing: fetch and hard reset
SyncExistingDone(r) == StepDone("sync_existing", r)

\* the runtime polls the spawned task: select! polls the receiver and
\* sync_task in the order drawn; when with_stop returns, the task ends and
\* drops its StopReceiver
StagePoll(start) ==
    /\ call.state = "pending"
    /\ LET polls_future == ~(start = 0 /\ recv_ready(stop_chan))
           st == IF polls_future
                 THEN sync_task([sync |-> sync, work |-> work])
                 ELSE [sync |-> sync, work |-> work]
           w == with_stop(start, stop_chan, polls_future /\ st.sync.pc = "done")
       IN /\ sync' = st.sync
          /\ work' = st.work
          /\ stop_chan' = w.chan
          /\ stop_rx' = IF w.ret = "Pending" THEN stop_rx ELSE "dropped"
          /\ ack' = IF w.acked THEN "sent"
                    ELSE IF w.ret = "Some" /\ stop_chan = "request" THEN "dropped"
                    ELSE ack
          /\ call' = [call EXCEPT
                !.state = IF w.ret = "Pending" THEN "pending" ELSE w.ret,
                !.op = IF w.ret = "Some" THEN "taken"
                       ELSE IF w.ret = "None" THEN "dropped" ELSE @,
                !.acks = @ + (IF w.acked THEN 1 ELSE 0),
                !.seen = <<stop_chan,
                           IF polls_future /\ st.sync.pc = "done"
                           THEN "ready" ELSE "pending">>,
                !.polled = @ \/ polls_future]
    /\ UNCHANGED <<crates, should_sync, stopper, sent_when>>
    /\ UNCHANGED notStage

\* within one poll sync_task runs on past an await whose step had ended
\* when it was polled (a check of the file system may end at once): the
\* stop request is looked at when the poll begins or ends, never between
\* two such stretches.  When sync_task returns, with_stop returns Some
StageRun ==
    /\ call.state = "pending"
    /\ LET st == sync_task([sync |-> sync, work |-> work])
           done == st.sync.pc = "done"
       IN /\ st # [sync |-> sync, work |-> work]
          /\ sync' = st.sync
          /\ work' = st.work
          /\ stop_rx' = IF done THEN "dropped" ELSE stop_rx
          /\ ack' = IF done /\ stop_chan = "request" THEN "dropped" ELSE ack
          /\ call' = [call EXCEPT
                !.state = IF done THEN "Some" ELSE @,
                !.op = IF done THEN "taken" ELSE @,
                !.seen = IF done THEN <<stop_chan, "ready">> ELSE @,
                !.polled = TRUE]
    /\ UNCHANGED <<crates, should_sync, stop_chan, stopper, sent_when>>
    /\ UNCHANGED notStage

\* the analysis pool takes a WorkItem
WorkRecv ==
    /\ work.receiver = "alive"
    /\ work.len > 0
    /\ work' = [work EXCEPT !.len = @ - 1]
    /\ UNCHANGED <<crates, should_sync, sync>>
    /\ UNCHANGED stopVars
    /\ UNCHANGED notStage

\* the analysis pool is gone and its receiver with it
WorkReceiverDrop ==
    /\ work.receiver = "alive"
    /\ work' = [work EXCEPT !.receiver = "dropped"]
    /\ UNCHANGED <<crates, should_sync, sync>>
    /\ UNCHANGED stopVars
    /\ UNCHANGED notStage

NextStage ==
    \/ \E r \in EnsureAtResults : EnsureAtDone(r)
    \/ \E r \in JoinResults : JoinDone(r)
    \/ \E r \in SyncExistingResults : SyncExistingDone(r)
    \/ \E start \in Branches : StagePoll(start)
    \/ StageRun
    \/ WorkRecv
    \/ WorkReceiverDrop
    \/ SenderStop
    \/ SenderResume
    \/ SenderDrop

(***************************************************************************)
(* crates/csv_parse.rs and crates/api.rs: the scan of the versions dump.   *)
(* A record is the sequence of its field strings.  The csv reader (not     *)
(* flexible) yields an error for a record whose length differs from the    *)
(* header's; VersionsEntryBuilder takes the fields one by one and parses   *)
(* fields 3, 4, 8 and 23 (counted from 0).                                 *)
(***************************************************************************)
FieldCount == 24

\* str::parse::<u64> on the strings the records carry
parse_u64(value) ==
    IF value = "1" THEN [ok |-> TRUE, v |-> 1]
    ELSE IF value = "2" THEN [ok |-> TRUE, v |-> 2]
    ELSE IF value = "3" THEN [ok |-> TRUE, v |-> 3]
    ELSE [ok |-> FALSE, v |-> 0]

parse_yanked_bool(value) ==
    IF value = "f" THEN [ok |-> TRUE, v |-> FALSE]
    ELSE IF value = "t" THEN [ok |-> TRUE, v |-> TRUE]
    ELSE [ok |-> FALSE, v |-> FALSE]

NewBuilder ==
    [inner |-> [crate_id |-> 0, crate_size |-> 0, downloads |-> 0, yanked |-> FALSE],
     next_field |-> 0, err |-> "none"]

\* VersionsEntryBuilder::enter_next; err is set where the code returns Err
enter_next(b, value) ==
    LET n == b.next_field
        u == parse_u64(value)
        y == parse_yanked_bool(value)
        step(inner) == [b EXCEPT !.inner = inner, !.next_field = n + 1]
    IN  IF n = 3
        THEN IF u.ok THEN step([b.inner EXCEPT !.crate_id = u.v])
             ELSE [b EXCEPT !.err = "crate_id"]
        ELSE IF n = 4
        THEN IF u.ok THEN step([b.inner EXCEPT !.crate_size = u.v])
             ELSE [b EXCEPT !.err = "crate_size"]
        ELSE IF n = 8
        THEN IF u.ok THEN step([b.inner EXCEPT !.downloads = u.v])
             ELSE [b EXCEPT !.err = "downloads"]
        ELSE IF n = 23
        THEN IF y.ok THEN step([b.inner EXCEPT !.yanked = y.v])
             ELSE [b EXCEPT !.err = "yanked"]
        ELSE IF n >= FieldCount THEN [b EXCEPT !.err = "too_many_fields"]
        ELSE step(b.inner)

\* for val in &record { bldr.enter_next(val)? } then bldr.consume()
RECURSIVE build(_, _, _)
build(b, record, i) ==
    IF b.err # "none" THEN b
    ELSE IF i > Len(record)
         THEN IF b.next_field = FieldCount THEN b
              ELSE [b EXCEPT !.err = "not_enough_fields"]
         ELSE build(enter_next(b, record[i]), record, i + 1)

\* a record of n fields with the four parsed fields as given
Record(n, crate_id, crate_size, downloads, yanked) ==
    [i \in 1..n |->
        IF i = 4 THEN crate_id
        ELSE IF i = 5 THEN crate_size
        ELSE IF i = 9 THEN downloads
        ELSE IF i = 24 THEN yanked
        ELSE ""]

\* well-formed records and records with one defect each
Records ==
    {Record(FieldCount, id, "1", d, "f") : id \in {"1", "2"}, d \in {"1", "2"}}
    \cup {Record(FieldCount, "x", "1", "1", "f"),
          Record(FieldCount, "1", "", "1", "f"),
          Record(FieldCount, "1", "1", "-1", "f"),
          Record(FieldCount, "1", "1", "1", "yes"),
          Record(FieldCount, "3", "1", "1", "f"),
          Record(FieldCount - 1, "1", "1", "1", "f"),
          Record(FieldCount + 1, "1", "1", "1", "f")}

\* the ids crates.csv gives a name
name_id_mapping == {1, 2}

\* the VersionsEntry as Consumer::consume takes it; the names and
\* repositories of the dump pass the filters
VersionsEntry(inner) ==
    [crate_id |-> inner.crate_id, downloads |-> inner.downloads,
     crate_size |-> inner.crate_size,
     name_excluded |-> FALSE, repo_excluded |-> FALSE,
     repo_valid |-> TRUE, name_valid |-> TRUE]

NewScan(k, header_len) ==
    [pc |-> "scanning", ret |-> "none", records_read |-> 0, last |-> "none",
     header_len |-> header_len, consumer |-> NewConsumer(k)]

IdleScan == scan = NewScan(0, FieldCount)

InitScan ==
    \E k \in 0..MaxK, h \in {FieldCount - 1, FieldCount, FieldCount + 1} :
        scan = NewScan(k, h)

Fail(sc, why) == [sc EXCEPT !.pc = "done", !.ret = "Err", !.last = why]

\* one turn of the for loop of parse_versions_xml on the record the reader
\* yields
scan_record(sc, record) ==
    LET sc1 == [sc EXCEPT !.records_read = @ + 1]
        b == build(NewBuilder, record, 1)
    IN  IF Len(record) # sc.header_len THEN Fail(sc1, "unequal_lengths")
        ELSE IF b.err # "none" THEN Fail(sc1, b.err)
        ELSE IF b.inner.crate_id \notin name_id_mapping THEN Fail(sc1, "no_name")
        ELSE LET r == consume(sc.consumer, VersionsEntry(b.inner)) IN
             IF r.ret = "Err" THEN Fail(sc1, "consume")
             ELSE [sc1 EXCEPT !.consumer = r.self, !.last = "ok"]

ScanRecord(record) ==
    /\ scan.pc = "scanning"
    /\ scan.records_read < MaxScan
    /\ scan' = scan_record(scan, record)
    /\ UNCHANGED notScan

\* the reader fails to read from the file
ScanIoError ==
    /\ scan.pc = "scanning"
    /\ scan.records_read < MaxScan
    /\ scan' = Fail([scan EXCEPT !.records_read = @ + 1], "io")
    /\ UNCHANGED notScan

\* the reader is at the end of the file
ScanEnd ==
    /\ scan.pc = "scanning"
    /\ scan' = [scan EXCEPT !.pc = "done", !.ret = "Ok"]
    /\ UNCHANGED notScan

NextScan ==
    \/ \E record \in Records : ScanRecord(record)
    \/ ScanIoError
    \/ ScanEnd

(***************************************************************************)
(* The stream bridge (crates.rs): a task pushes the chunks of the response *)
(* body into a bounded channel, AsyncReadShim.read pulls them.             *)
(***************************************************************************)

\* std::sync::mpsc::sync_channel(32)
ChannelCapacity == 32

\* chunk lengths repeat with this period
Period == 2

\* the lengths of the chunks the response body yields
ChunkLens == [1..Period -> 0..MaxChunkLen]

\* the i-th chunk (from 0) of the body: its bytes are numbered by their
\* position in the body, so a lost, repeated or misplaced byte is visible
chunk_len(lens, i) == lens[(i % Period) + 1]

data_of(lens, i, offset) == [j \in 1..chunk_len(lens, i) |-> offset + j]

NewChannel == [queue |-> <<>>, sender |-> "alive", receiver |-> "alive"]

\* the Full arm of the retry loop abandons the chunk
on_try_send_discarding(ret) ==
    CASE ret = "Ok" -> "next"
      [] ret = "Disconnected" -> "return"
      [] OTHER -> "next"

\* SyncSender::try_send
try_send(chan, data) ==
    IF chan.receiver = "dropped"
    THEN [chan |-> chan, ret |-> "Disconnected"]
    ELSE IF Len(chan.queue) >= ChannelCapacity
    THEN [chan |-> chan, ret |-> "Full"]
    ELSE [chan |-> [chan EXCEPT !.queue = Append(@, data)], ret |-> "Ok"]

\* the arms of the match on try_send's result
on_try_send(ret) ==
    CASE ret = "Ok" -> "next"
      [] ret = "Disconnected" -> "return"
      [] OTHER -> "sleep"

\* the remainder of a partly read chunk is forgotten
read_dropping_remainder(self, chan, buf_len) ==
    IF chan.queue = <<>>
    THEN [self |-> self, chan |-> chan, ret |-> "Err", buf |-> <<>>]
    ELSE LET data == Head(chan.queue)
             rest == [chan EXCEPT !.queue = Tail(@)]
         IN  IF buf_len >= Len(data)
             THEN [self |-> self, chan |-> rest, ret |-> "Ok", buf |-> data]
             ELSE [self |-> self, chan |-> rest, ret |-> "Ok",
                   buf |-> SubSeq(data, 1, buf_len)]

\* read taking a closed and empty channel for the end of the file
read_eof_on_closed(self, chan, buf_len) ==
    IF self.overflow = <<>> /\ chan.queue = <<>>
    THEN [self |-> self, chan |-> chan, ret |-> "Ok", buf |-> <<>>]
    ELSE LET overflow_len == Len(self.overflow)
         IN  IF overflow_len > 0
             THEN IF buf_len >= overflow_len
                  THEN [self |-> [self EXCEPT !.overflow = <<>>], chan |-> chan,
                        ret |-> "Ok", buf |-> self.overflow]
                  ELSE [self |-> [self EXCEPT !.overflow =
                                      SubSeq(@, buf_len + 1, overflow_len)],
                        chan |-> chan, ret |-> "Ok",
                        buf |-> SubSeq(self.overflow, 1, buf_len)]
             ELSE LET data == Head(chan.queue)
                      rest == [chan EXCEPT !.queue = Tail(@)]
                  IN  IF buf_len >= Len(data)
                      THEN [self |-> self, chan |-> rest, ret |-> "Ok",
                            buf |-> data]
                      ELSE [self |-> [self EXCEPT !.overflow =
                                          SubSeq(data, buf_len + 1, Len(data))],
                            chan |-> rest, ret |-> "Ok",
                            buf |-> SubSeq(data, 1, buf_len)]

\* AsyncReadShim::read into a buffer of buf_len bytes, when it does not block;
\* buf is the part of the buffer it wrote, ret "Ok" stands for Ok(Len(buf))
read(self, chan, buf_len) ==
    LET overflow_len == Len(self.overflow)
    IN  IF overflow_len > 0
        THEN IF buf_len >= overflow_len
             THEN [self |-> [self EXCEPT !.overflow = <<>>], chan |-> chan,
                   ret |-> "Ok", buf |-> self.overflow]
             ELSE [self |-> [self EXCEPT !.overflow =
                                 SubSeq(@, buf_len + 1, overflow_len)],
                   chan |-> chan, ret |-> "Ok",
                   buf |-> SubSeq(self.overflow, 1, buf_len)]
        ELSE IF chan.queue = <<>>
        THEN [self |-> self, chan |-> chan, ret |-> "Err", buf |-> <<>>]
        ELSE LET data == Head(chan.queue)
                 rest == [chan EXCEPT !.queue = Tail(@)]
             IN  IF buf_len >= Len(data)
                 THEN [self |-> self, chan |-> rest, ret |-> "Ok", buf |-> data]
                 ELSE [self |-> [self EXCEPT !.overflow =
                                     SubSeq(data, buf_len + 1, Len(data))],
                       chan |-> rest, ret |-> "Ok",
                       buf |-> SubSeq(data, 1, buf_len)]

\* recv() waits while the queue is empty and the sender lives
read_blocks(self, chan) ==
    self.overflow = <<>> /\ chan.queue = <<>> /\ chan.sender = "alive"

NewProducer(lens) ==
    [pc |-> "next", lens |-> lens, taken |-> 0, offset |-> 0, data |-> <<>>,
     was_full |-> FALSE, end |-> "none"]

NewShim == [overflow |-> <<>>, ret |-> "none"]

\* what went through the bridge: bytes enqueued, bytes handed to the reader,
\* chunks received, whether a read left a remainder, whether a chunk was
\* enqueued after it found the queue full
NewPassed ==
    [pushed |-> <<>>, delivered |-> <<>>, received |-> 0, partial |-> FALSE,
     retried |-> FALSE]

IdleBridge ==
    /\ channel = NewChannel
    /\ producer = NewProducer([i \in 1..Period |-> 1])
    /\ shim = NewShim
    /\ passed = NewPassed

InitBridge ==
    /\ channel = NewChannel
    /\ \E lens \in ChunkLens : producer = NewProducer(lens)
    /\ shim = NewShim
    /\ passed = NewPassed

\* stream.next() yields Ok(d)
StreamChunk ==
    /\ producer.pc = "next"
    /\ producer.taken < MaxChunks
    /\ LET d == data_of(producer.lens, producer.taken, producer.offset)
       IN  producer' = [producer EXCEPT !.pc = "try_send", !.data = d,
                                        !.taken = @ + 1,
                                        !.offset = @ + Len(d),
                                        !.was_full = FALSE]
    /\ UNCHANGED <<channel, shim, passed>>
    /\ UNCHANGED notBridge

\* the loop ends and the task drops the sender
end_task(why) ==
    /\ producer' = [producer EXCEPT !.pc = "done", !.end = why]
    /\ channel' = [channel EXCEPT !.sender = "dropped"]
    /\ UNCHANGED <<shim, passed>>
    /\ UNCHANGED notBridge

\* stream.next() yields None
StreamEnd ==
    /\ producer.pc = "next"
    /\ end_task("eof")

\* stream.next() yields Err(e): logged, break
StreamError ==
    /\ producer.pc = "next"
    /\ end_task("error")

\* one turn of the retry loop
TrySend ==
    /\ producer.pc = "try_send"
    /\ LET r == try_send(channel, producer.data)
           to == on_try_send(r.ret)
       IN  /\ channel' = IF to = "return"
                         THEN [r.chan EXCEPT !.sender = "dropped"]
                         ELSE r.chan
           /\ producer' =
                 [producer EXCEPT
                     !.pc = IF to = "return" THEN "done" ELSE to,
                     !.end = IF to = "return" THEN "disconnected" ELSE @,
                     !.data = IF to = "sleep" THEN @ ELSE <<>>,
                     !.was_full = (to = "sleep") \/ (to = "next" /\ @)]
           /\ passed' =
                 IF r.ret = "Ok"
                 THEN [passed EXCEPT !.pushed = @ \o producer.data,
                                     !.retried = @ \/ producer.was_full]
                 ELSE passed
    /\ UNCHANGED shim
    /\ UNCHANGED notBridge

\* the 10 ms sleep is over
Wake ==
    /\ producer.pc = "sleep"
    /\ producer' = [producer EXCEPT !.pc = "try_send"]
    /\ UNCHANGED <<channel, shim, passed>>
    /\ UNCHANGED notBridge

\* the decoder reads into a buffer of buf_len bytes
Read(buf_len) ==
    /\ channel.receiver = "alive"
    /\ shim.ret # "Err"
    /\ ~read_blocks(shim, channel)
    /\ LET r == read(shim, channel, buf_len)
       IN  /\ shim' = [r.self EXCEPT !.ret = r.ret]
           /\ channel' = r.chan
           /\ passed' =
                 [passed EXCEPT
                     !.delivered = @ \o r.buf,
                     !.received = @ + Len(channel.queue) - Len(r.chan.queue),
                     !.partial = @ \/ (r.self.overflow # <<>>)]
    /\ UNCHANGED producer
    /\ UNCHANGED notBridge

\* untar_gzipped returns and drops the reader
ReaderDrop ==
    /\ channel.receiver = "alive"
    /\ channel' = [channel EXCEPT !.receiver = "dropped"]
    /\ UNCHANGED <<producer, shim, passed>>
    /\ UNCHANGED notBridge

NextBridge ==
    \/ StreamChunk
    \/ StreamEnd
    \/ StreamError
    \/ TrySend
    \/ Wake
    \/ \E buf_len \in 0..MaxBuf : Read(buf_len)
    \/ ReaderDrop

(***************************************************************************)
(* analyze/report.rs: the AnalysisReport.  drain_analyses hands it every   *)
(* CrateAnalysis the result channel delivers, in completion order;         *)
(* finish_report sorts what was kept.  A crate name is a path that passed  *)
(* best_attempt_validate_path, here the sequence of its bytes: "a", "a-b"  *)
(* and "a/b".  Several workspaces of one crate share a name.               *)
(***************************************************************************)
CrateNames == {<<97>>, <<97, 45, 98>>, <<97, 47, 98>>}

\* the pieces of a path between its separators (47 is '/')
RECURSIVE split(_, _)
split(p, cur) ==
    IF p = <<>> THEN <<cur>>
    ELSE IF Head(p) = 47 THEN <<cur>> \o split(Tail(p), <<>>)
    ELSE split(Tail(p), Append(cur, Head(p)))

\* the components of the pieces behind the start of a path: an empty piece
\* and "." are passed over, ".." is ParentDir, any other piece is Normal.
\* A component is <<rank, bytes>> with the rank of its variant in enum
\* Component: RootDir 1, CurDir 2, ParentDir 3, Normal 4
RECURSIVE named(_)
named(segs) ==
    IF segs = <<>> THEN <<>>
    ELSE IF Head(segs) = <<>> \/ Head(segs) = <<46>> THEN named(Tail(segs))
    ELSE IF Head(segs) = <<46, 46>> THEN <<<<3, <<>>>>>> \o named(Tail(segs))
    ELSE <<<<4, Head(segs)>>>> \o named(Tail(segs))

\* Path::components: a leading separator is RootDir, a leading "." CurDir
components(p) ==
    LET segs == split(p, <<>>)
        start == IF p = <<>> THEN <<>>
                 ELSE IF p[1] = 47 THEN <<<<1, <<>>>>>>
                 ELSE IF segs[1] = <<46>> THEN <<<<2, <<>>>>>>
                 ELSE <<>>
    IN  start \o named(segs)

\* Ord of the bytes of a component: "Less", "Equal" or "Greater"
RECURSIVE cmp_bytes(_, _)
cmp_bytes(a, b) ==
    IF a = <<>> /\ b = <<>> THEN "Equal"
    ELSE IF a = <<>> THEN "Less"
    ELSE IF b = <<>> THEN "Greater"
    ELSE IF Head(a) < Head(b) THEN "Less"
    ELSE IF Head(a) > Head(b) THEN "Greater"
    ELSE cmp_bytes(Tail(a), Tail(b))

\* Iterator::cmp on two lists of components
RECURSIVE cmp_components(_, _)
cmp_components(xs, ys) ==
    IF xs = <<>> /\ ys = <<>> THEN "Equal"
    ELSE IF xs = <<>> THEN "Less"
    ELSE IF ys = <<>> THEN "Greater"
    ELSE IF Head(xs)[1] < Head(ys)[1] THEN "Less"
    ELSE IF Head(xs)[1] > Head(ys)[1] THEN "Greater"
    ELSE IF cmp_bytes(Head(xs)[2], Head(ys)[2]) # "Equal"
         THEN cmp_bytes(Head(xs)[2], Head(ys)[2])
    ELSE cmp_components(Tail(xs), Tail(ys))

\* Ord of CrateName, derived through NormalPath from PathBuf: the order of
\* the components of the two paths
cmp(a, b) == cmp_components(components(a), components(b))

\* normalized_single: Ok when the first component of the path is Normal
normalized_single(path_buf) ==
    /\ components(path_buf) # <<>>
    /\ components(path_buf)[1][1] = 4

\* best_attempt_validate_path: Some(path) for Ok, None for Err
best_attempt_validate_path(s) ==
    IF normalized_single(s) THEN Some(s) ELSE None

\* the bytes of the two labels add_result passes
Label(label) ==
    IF label = "upstream" THEN <<117, 112, 115, 116, 114, 101, 97, 109>>
    ELSE <<108, 111, 99, 97, 108>>

\* format!("{}-{label}.diff") and its validation
try_convert_to_diff_file_name(crate_name, label) ==
    best_attempt_validate_path(
        crate_name \o <<45>> \o Label(label) \o <<46, 100, 105, 102, 102>>)

\* format!("{}-{label}-error.txt") and its validation
try_convert_to_rustfmt_error_file_name(crate_name, label) ==
    best_attempt_validate_path(
        crate_name \o <<45>> \o Label(label)
            \o <<45, 101, 114, 114, 111, 114, 46, 116, 120, 116>>)

\* the name of the meta diff.  report.rs 218 calls the function; its body
\* is in no file at hand.  It is taken to make the name as the two
\* functions above do: the crate name, then "-diverge.diff", validated
try_convert_to_diverge_file_name(crate_name) ==
    best_attempt_validate_path(
        crate_name \o <<45, 100, 105, 118, 101, 114, 103, 101>>
            \o <<46, 100, 105, 102, 102>>)

\* place_file: the directory of the output and the file name in it
place_file(file_name, diverged_, err) ==
    <<IF err THEN "errors" ELSE IF diverged_ THEN "diverged" ELSE "nondiverged",
      file_name>>

Min3(a, b, c) == IF a <= b /\ a <= c THEN a ELSE IF b <= c THEN b ELSE c

\* the row of edit distances of a prefix of a that ends in the letter x to
\* every prefix of b, from the row prev of the prefix before x; acc holds
\* the cells of the row found so far
RECURSIVE lev_row(_, _, _, _)
lev_row(x, b, prev, acc) ==
    IF Len(acc) = Len(b) + 1 THEN acc
    ELSE LET j == Len(acc)
             cost == IF b[j] = x THEN 0 ELSE 1
         IN  lev_row(x, b, prev,
                     Append(acc, Min3(prev[j + 1] + 1, acc[j] + 1, prev[j] + cost)))

RECURSIVE lev_rows(_, _, _)
lev_rows(a, b, prev) ==
    IF a = <<>> THEN prev
    ELSE lev_rows(Tail(a), b, lev_row(Head(a), b, prev, <<prev[1] + 1>>))

\* strsim::levenshtein
levenshtein(a, b) ==
    lev_rows(a, b, [j \in 1..(Len(b) + 1) |-> j - 1])[Len(b) + 1]

\* similarity: normalized_levenshtein(a, b) > 0.9, where the normalized
\* distance is 1 for two empty texts and 1 - levenshtein / longer length
\* otherwise
similarity(a, b) ==
    IF a = <<>> /\ b = <<>> THEN TRUE
    ELSE 10 * levenshtein(a, b) < (IF Len(a) >= Len(b) THEN Len(a) ELSE Len(b))

\* the error text of a failed formatter run: ErrLen letters, the first k of
\* them other than those of the text with k = 0
ErrLen == 11

ErrorText(k) == [i \in 1..ErrLen |-> IF i <= k THEN 120 ELSE 101]

\* the outputs of the two formatter runs of a result: the diff texts "X" and
\* "Y"; the upstream error text and the local ones, one letter and two
\* letters away from it
UpstreamOutputs ==
    {[kind |-> "Success", text |-> <<>>],
     [kind |-> "Diff", text |-> <<88>>],
     [kind |-> "Failure", text |-> ErrorText(0)]}

LocalOutputs ==
    {[kind |-> "Success", text |-> <<>>],
     [kind |-> "Diff", text |-> <<88>>],
     [kind |-> "Diff", text |-> <<89>>],
     [kind |-> "Failure", text |-> ErrorText(1)],
     [kind |-> "Failure", text |-> ErrorText(2)]}

\* the CrateAnalysis values analyze_crate builds, as report.rs has them
Analyses ==
    {[crate_name |-> n,
      diverging_diff |-> DivergingDiff(up, loc),
      upstream_rustfmt_analysis |-> RustfmtAnalysis(up),
      local_rustfmt_analysis |-> RustfmtAnalysis(loc)] :
        n \in CrateNames, up \in UpstreamOutputs, loc \in LocalOutputs}

NewReport ==
    [num_diverging_diffs |-> 0,
     num_upstream_failures |-> 0,
     num_upstream_diffs |-> 0,
     num_upstream_successes |-> 0,
     num_local_failures |-> 0,
     num_local_diffs |-> 0,
     num_local_successes |-> 0,
     crate_reports |-> <<>>]

\* whether create_rustfmt_output reaches an await of dump_content
dumps_content(crate_name, label, write_outputs, analysis) ==
    /\ write_outputs
    /\ \/ /\ analysis.diff_output # None
          /\ try_convert_to_diff_file_name(crate_name, label) # None
       \/ /\ analysis.rustfmt_error # None
          /\ try_convert_to_rustfmt_error_file_name(crate_name, label) # None

\* a failing formatter run is not counted
create_rustfmt_output_uncounted(crate_name, label, write_outputs, diverged_, analysis, counters, dumped) ==
    LET has_diff == analysis.diff_output # None
        has_err == analysis.rustfmt_error # None
        diff_name == try_convert_to_diff_file_name(crate_name, label)
        err_name == try_convert_to_rustfmt_error_file_name(crate_name, label)
    IN  [success |-> counters.success
                        + (IF ~has_err /\ ~has_diff THEN 1 ELSE 0),
         diff |-> counters.diff + (IF has_diff THEN 1 ELSE 0),
         failure |-> counters.failure,
         out |-> [diff_output_file |->
                      IF has_diff /\ write_outputs /\ diff_name # None
                         /\ dumped = "Ok"
                      THEN Some(place_file(diff_name[1], diverged_, FALSE))
                      ELSE None,
                  error_output_file |->
                      IF has_err /\ write_outputs /\ err_name # None
                         /\ dumped = "Ok"
                      THEN Some(place_file(err_name[1], diverged_, TRUE))
                      ELSE None]]

\* create_rustfmt_output: the three counters after it and the FmtOutput.  A
\* file is named when write_outputs is set, the crate name converts to a
\* file name and dump_content, whose result is dumped, wrote the content
create_rustfmt_output(crate_name, label, write_outputs, diverged_, analysis, counters, dumped) ==
    LET has_diff == analysis.diff_output # None
        has_err == analysis.rustfmt_error # None
        diff_name == try_convert_to_diff_file_name(crate_name, label)
        err_name == try_convert_to_rustfmt_error_file_name(crate_name, label)
    IN  [success |-> counters.success
                        + (IF ~has_err /\ ~has_diff THEN 1 ELSE 0),
         diff |-> counters.diff + (IF has_diff THEN 1 ELSE 0),
         failure |-> counters.failure + (IF has_err THEN 1 ELSE 0),
         out |-> [diff_output_file |->
                      IF has_diff /\ write_outputs /\ diff_name # None
                         /\ dumped = "Ok"
                      THEN Some(place_file(diff_name[1], diverged_, FALSE))
                      ELSE None,
                  error_output_file |->
                      IF has_err /\ write_outputs /\ err_name # None
                         /\ dumped = "Ok"
                      THEN Some(place_file(err_name[1], diverged_, TRUE))
                      ELSE None]]

\* what try_diff gives, whatever the diff tool is
DiffResult == {"Diff", "ToolNotFound", "Error"}

\* what dump_content gives
DumpResult == {"Ok", "Err"}

\* write_meta_diff_if_present: diff_result is what try_diff gave on the two
\* diff files, dumped what dump_content gave on the meta diff
write_meta_diff_if_present(diff_result, crate_name, upstream_out, local_out, dumped) ==
    IF upstream_out.diff_output_file # None /\ local_out.diff_output_file # None
    THEN IF diff_result = "Diff"
         THEN LET name == try_convert_to_diverge_file_name(crate_name)
              IN  IF name # None /\ dumped = "Ok"
                  THEN Some(place_file(name[1], TRUE, FALSE))
                  ELSE None
         ELSE None
    ELSE None

CrateReport(cr, similar_errors, meta_diff_file, upstream_out, local_out) ==
    [crate_name |-> cr.crate_name,
     diverged |-> diverged(cr.diverging_diff),
     similar_errors |-> similar_errors,
     meta_diff_file |-> meta_diff_file,
     upstream_rustfmt_output |-> upstream_out,
     local_rustfmt_output |-> local_out]

\* a result is kept only if it diverged or every result is asked for
retained_ignoring_failures(cr, skip_non_diverging_diffs, pre_errors, errors) ==
    diverged(cr.diverging_diff) \/ ~skip_non_diverging_diffs

\* the test before the push of add_result; errors is the sum of the two
\* failure counters at the test
retained(cr, skip_non_diverging_diffs, pre_errors, errors) ==
    \/ diverged(cr.diverging_diff)
    \/ ~skip_non_diverging_diffs
    \/ pre_errors < errors

\* AnalysisReport::add_result from the match on the class to its end; k is
\* the number of awaits the call has behind it and errors the sum of the two
\* failure counters before the call
add_result_meta(self, cr, skip_non_diverging_diffs, io, k, errors, upstream_out, local_out) ==
    LET local_err == cr.local_rustfmt_analysis.rustfmt_error
        upstream_err == cr.upstream_rustfmt_analysis.rustfmt_error
        similar_errors ==
            IF local_err # None /\ upstream_err # None
            THEN similarity(local_err[1], upstream_err[1])
            ELSE FALSE
        diff_awaits == /\ cr.diverging_diff = "DiffBetween"
                       /\ upstream_out.diff_output_file # None
                       /\ local_out.diff_output_file # None
        diff_result == IF diff_awaits /\ Len(io) > k THEN io[k + 1]
                       ELSE "ToolNotFound"
        meta_awaits == /\ diff_result = "Diff"
                       /\ try_convert_to_diverge_file_name(cr.crate_name) # None
        dumped == IF meta_awaits /\ Len(io) > k + 1 THEN io[k + 2] ELSE "Err"
        meta_diff_file ==
            IF cr.diverging_diff = "DiffBetween"
            THEN write_meta_diff_if_present(diff_result, cr.crate_name,
                                            upstream_out, local_out, dumped)
            ELSE None
    IN  IF diff_awaits /\ Len(io) <= k
        THEN [awaits |-> "try_diff", self |-> self]
        ELSE IF meta_awaits /\ Len(io) <= k + 1
        THEN [awaits |-> "dump_content", self |-> self]
        ELSE [awaits |-> "none",
              self |->
                  IF retained(cr, skip_non_diverging_diffs, errors,
                              self.num_local_failures + self.num_upstream_failures)
                  THEN [self EXCEPT !.crate_reports =
                           Append(@, CrateReport(cr, similar_errors,
                                      meta_diff_file, upstream_out, local_out))]
                  ELSE self]

\* AnalysisReport::add_result from the local output on
add_result_local(self, cr, write_outputs, skip_non_diverging_diffs, io, k, errors, upstream_out) ==
    LET awaits == dumps_content(cr.crate_name, "local", write_outputs,
                                cr.local_rustfmt_analysis)
        loc == create_rustfmt_output(cr.crate_name, "local", write_outputs,
                   diverged(cr.diverging_diff), cr.local_rustfmt_analysis,
                   [success |-> self.num_local_successes,
                    diff |-> self.num_local_diffs,
                    failure |-> self.num_local_failures],
                   IF awaits /\ Len(io) > k THEN io[k + 1] ELSE "Err")
        counted == [self EXCEPT
                       !.num_local_successes = loc.success,
                       !.num_local_diffs = loc.diff,
                       !.num_local_failures = loc.failure]
    IN  IF awaits /\ Len(io) <= k
        THEN [awaits |-> "dump_content", self |-> counted]
        ELSE add_result_meta(counted, cr, skip_non_diverging_diffs, io,
                             IF awaits THEN k + 1 ELSE k, errors,
                             upstream_out, loc.out)

\* AnalysisReport::add_result, polled until the awaits whose results are in
\* io have returned: the report as the call has left it by then, and what
\* the call awaits next ("none" when it has returned).  The awaits of a call
\* are, in this order, dump_content for the upstream output, dump_content
\* for the local output, try_diff and dump_content for the meta diff, each
\* only where the code reaches it.
add_result(self, cr, write_outputs, skip_non_diverging_diffs, io) ==
    LET awaits == dumps_content(cr.crate_name, "upstream", write_outputs,
                                cr.upstream_rustfmt_analysis)
        up == create_rustfmt_output(cr.crate_name, "upstream", write_outputs,
                  diverged(cr.diverging_diff), cr.upstream_rustfmt_analysis,
                  [success |-> self.num_upstream_successes,
                   diff |-> self.num_upstream_diffs,
                   failure |-> self.num_upstream_failures],
                  IF awaits /\ Len(io) > 0 THEN io[1] ELSE "Err")
        counted == [self EXCEPT
                       !.num_diverging_diffs =
                           IF diverged(cr.diverging_diff) THEN @ + 1 ELSE @,
                       !.num_upstream_successes = up.success,
                       !.num_upstream_diffs = up.diff,
                       !.num_upstream_failures = up.failure]
    IN  IF awaits /\ Len(io) = 0
        THEN [awaits |-> "dump_content", self |-> counted]
        ELSE add_result_local(counted, cr, write_outputs,
                              skip_non_diverging_diffs, io,
                              IF awaits THEN 1 ELSE 0,
                              self.num_local_failures + self.num_upstream_failures,
                              up.out)

\* where a stable sort puts x into the sorted s: behind every element that
\* is not greater
RECURSIVE insert_sorted(_, _)
insert_sorted(s, x) ==
    IF s = <<>> THEN <<x>>
    ELSE IF cmp(Head(s).crate_name, x.crate_name) = "Greater"
         THEN <<x>> \o s
         ELSE <<Head(s)>> \o insert_sorted(Tail(s), x)

\* the reports are written in the order they came
finish_report_unsorted(self) == self

\* slice::sort_by(|a, b| a.crate_name.cmp(&b.crate_name)): a stable sort
RECURSIVE sort_by_crate_name(_)
sort_by_crate_name(s) ==
    IF s = <<>> THEN <<>>
    ELSE insert_sorted(sort_by_crate_name(SubSeq(s, 1, Len(s) - 1)), s[Len(s)])

\* AnalysisReport::finish_report: the report as it is serialised
finish_report(self) ==
    [self EXCEPT !.crate_reports = sort_by_crate_name(@)]

\* exec_parallel's arguments to drain_analyses
ReportArgs == [write_outputs : BOOLEAN, skip_non_diverging_diffs : BOOLEAN]

\* what was handed to the report: how many add_result calls have returned,
\* how many of them with a class other than None, the last with the kept
\* results before it, whether the final sort had anything to move, and how
\* many calls a stop has dropped at an await
NewAdded == [n |-> 0, diverging |-> 0, last |-> None, moved |-> FALSE, cut |-> 0]

\* report.call is the add_result call that is at an await: the report and
\* the result it was called with and the results of its awaits so far
IdleReport ==
    /\ report = [pc |-> "draining", self |-> NewReport, call |-> None]
    /\ report_args = [write_outputs |-> FALSE, skip_non_diverging_diffs |-> FALSE]
    /\ added = NewAdded

InitReport ==
    /\ report = [pc |-> "draining", self |-> NewReport, call |-> None]
    /\ report_args \in ReportArgs
    /\ added = NewAdded

\* the report and the account of the calls after add_result on cr, called on
\* the report before, has been polled with the await results io
polled(before, cr, io) ==
    LET r == add_result(before, cr, report_args.write_outputs,
                        report_args.skip_non_diverging_diffs, io)
    IN  /\ report' = [report EXCEPT
               !.self = r.self,
               !.call = IF r.awaits = "none" THEN None
                        ELSE Some([before |-> before, cr |-> cr, io |-> io])]
        /\ added' =
               IF r.awaits = "none"
               THEN [added EXCEPT
                        !.n = @ + 1,
                        !.diverging = IF cr.diverging_diff # "None"
                                      THEN @ + 1 ELSE @,
                        !.last = Some([cr |-> cr,
                                       before |-> before.crate_reports])]
               ELSE [added EXCEPT !.last = None]

\* drain_analyses receives cr and calls add_result, which returns or stays
\* at its first await
AddResult(cr) ==
    /\ report.pc = "draining"
    /\ report.call = None
    /\ added.n < (IF report_args.write_outputs THEN MaxWritten ELSE MaxResults)
    /\ polled(report.self, cr, <<>>)
    /\ UNCHANGED report_args
    /\ UNCHANGED notReport

\* the await of the add_result call returns o and the call goes on, to its
\* end or to its next await
AddResultPoll(o) ==
    /\ report.pc = "draining"
    /\ report.call # None
    /\ LET c == report.call[1]
           at == add_result(c.before, c.cr, report_args.write_outputs,
                            report_args.skip_non_diverging_diffs, c.io).awaits
       IN  /\ o \in (IF at = "try_diff" THEN DiffResult ELSE DumpResult)
           /\ polled(c.before, c.cr, Append(c.io, o))
    /\ UNCHANGED report_args
    /\ UNCHANGED notReport

\* the result channel is closed, or the run was stopped and with_stop drops
\* drain_analyses with the add_result call at its await: finish_report
FinishReport ==
    /\ report.pc = "draining"
    /\ report' = [pc |-> "finished", self |-> finish_report(report.self),
                  call |-> None]
    /\ added' = [added EXCEPT
           !.last = None,
           !.moved = finish_report(report.self) # report.self,
           !.cut = IF report.call # None THEN @ + 1 ELSE @]
    /\ UNCHANGED report_args
    /\ UNCHANGED notReport

NextReport ==
    \/ \E cr \in Analyses : AddResult(cr)
    \/ \E o \in DiffResult \cup DumpResult : AddResultPoll(o)
    \/ FinishReport

(***************************************************************************)
(* meteoroid/src/main.rs: the loop around the spawned run and ctrl-c.      *)
(***************************************************************************)
TaskResults == {"Ok", "Err", "JoinErr"}

\* the select! of the loop: branch 0 is `&mut meteoroid_task`, branch 1 is
\* `tokio::signal::ctrl_c()`
main_select(start, task_ready, ctrl_c_ready) ==
    IF start = 0
    THEN IF task_ready THEN "task"
         ELSE IF ctrl_c_ready THEN "ctrl_c" ELSE "pending"
    ELSE IF ctrl_c_ready THEN "ctrl_c"
         ELSE IF task_ready THEN "task" ELSE "pending"

\* the match on the joined run
on_lib_res(lib_res) == IF lib_res = "Ok" THEN "SUCCESS" ELSE "FAILURE"

\* the ctrl-c branch: stop_send.take() yields Some(stop) once, then the
\* stop is spawned and the loop continues; later it yields None
on_ctrl_c(stop) ==
    IF stop = "Some"
    THEN [stop_send |-> "None", spawn_stop |-> TRUE, exit |-> "none"]
    ELSE [stop_send |-> "None", spawn_stop |-> FALSE, exit |-> "FAILURE"]

\* listening: tokio::signal::ctrl_c() was polled, which installs the
\* handler of SIGINT for the rest of the process
NewMain ==
    [pc |-> "loop", exit |-> "none", by |-> "none", handled |-> 0,
     listening |-> FALSE]

NewSignals == [pending |-> FALSE, sent |-> 0]

IdleMain ==
    /\ main = [NewMain EXCEPT !.pc = "idle"]
    /\ meteoroid_task = "running"
    /\ stop_send = "Some"
    /\ signals = NewSignals
    /\ stop_tasks = <<>>

InitMain ==
    /\ main = NewMain
    /\ meteoroid_task = "running"
    /\ stop_send = "Some"
    /\ signals = NewSignals
    /\ stop_tasks = <<>>

\* the user interrupts.  Until the loop has polled ctrl_c() for the first
\* time SIGINT has its default disposition and kills the process.  Each
\* turn of the loop makes tokio::signal::ctrl_c() anew, and a listener sees
\* only what comes after it was made: interrupts that come before the loop
\* has taken the ctrl-c branch count as one, and an interrupt that comes
\* while the branch is run, before the next turn polls a new ctrl_c(), is
\* dropped
Interrupt ==
    /\ main.pc \in {"loop", "ctrl_c"}
    /\ signals.sent < MaxSignals
    /\ IF ~main.listening
       THEN /\ signals' = [signals EXCEPT !.sent = @ + 1]
            /\ main' = [main EXCEPT !.pc = "killed", !.exit = "SIGINT",
                                    !.by = "signal"]
       ELSE /\ signals' = [pending |-> signals.pending \/ main.pc = "loop",
                           sent |-> signals.sent + 1]
            /\ UNCHANGED main
    /\ UNCHANGED <<meteoroid_task, stop_send, stop_tasks>>
    /\ UNCHANGED notMain

\* the spawned run returns or panics
TaskReturns(res) ==
    /\ main.pc \in {"loop", "ctrl_c"}
    /\ meteoroid_task = "running"
    /\ meteoroid_task' = res
    /\ UNCHANGED <<main, stop_send, signals, stop_tasks>>
    /\ UNCHANGED notMain

\* a spawned stop() gets its acknowledgment (true) or loses its channel (false)
StopReturns(i, acked) ==
    /\ main.pc \in {"loop", "ctrl_c"}
    /\ i \in DOMAIN stop_tasks
    /\ stop_tasks[i] = "awaiting"
    /\ stop_tasks' = [stop_tasks EXCEPT ![i] = IF acked THEN "true" ELSE "false"]
    /\ UNCHANGED <<main, meteoroid_task, stop_send, signals>>
    /\ UNCHANGED notMain

\* one turn of the loop that finds a branch ready, or the first poll of
\* the select!, which polls ctrl_c() unless the run's branch was drawn
\* first and is ready.  When ctrl_c() has completed its branch is entered
MainPoll(start) ==
    /\ main.pc = "loop"
    /\ LET branch == main_select(start, meteoroid_task # "running", signals.pending)
           polls_ctrl_c == ~(start = 0 /\ meteoroid_task # "running")
       IN  /\ branch # "pending" \/ ~main.listening
           /\ IF branch = "pending"
              THEN /\ main' = [main EXCEPT !.listening = TRUE]
                   /\ UNCHANGED <<stop_send, signals, stop_tasks>>
              ELSE IF branch = "task"
              THEN /\ main' = [main EXCEPT !.pc = "exited",
                                           !.exit = on_lib_res(meteoroid_task),
                                           !.by = "task",
                                           !.listening = @ \/ polls_ctrl_c]
                   /\ UNCHANGED <<stop_send, signals, stop_tasks>>
              ELSE /\ signals' = [signals EXCEPT !.pending = FALSE]
                   /\ main' = [main EXCEPT !.pc = "ctrl_c"]
                   /\ UNCHANGED <<stop_send, stop_tasks>>
    /\ UNCHANGED meteoroid_task
    /\ UNCHANGED notMain

\* the ctrl-c branch runs to its end: main returns FAILURE, or the stop is
\* spawned and `continue` starts the next turn, whose select! polls a new
\* ctrl_c()
CtrlC ==
    /\ main.pc = "ctrl_c"
    /\ LET r == on_ctrl_c(stop_send)
       IN  /\ stop_send' = r.stop_send
           /\ stop_tasks' = IF r.spawn_stop
                            THEN Append(stop_tasks, "awaiting")
                            ELSE stop_tasks
           /\ main' = [main EXCEPT
                  !.handled = @ + 1,
                  !.pc = IF r.exit = "none" THEN "loop" ELSE "exited",
                  !.exit = r.exit,
                  !.by = IF r.exit = "none" THEN "none" ELSE "ctrl_c"]
    /\ UNCHANGED <<meteoroid_task, signals>>
    /\ UNCHANGED notMain

NextMain ==
    \/ Interrupt
    \/ \E res \in TaskResults : TaskReturns(res)
    \/ \E i \in 1..MaxSignals, acked \in BOOLEAN : StopReturns(i, acked)
    \/ \E start \in Branches : MainPoll(start)
    \/ CtrlC

(***************************************************************************)
(* git.rs: sync_task run again over the same working directory.  What the  *)
(* file system and git answer is a function of the checkout: whether the   *)
(* directory is there, whether a clone of the repository succeeds, and     *)
(* what the three checks find in it.                                       *)
(***************************************************************************)
\* the answers of the three checks the rerun distinguishes
Checks ==
    {[head_branch |-> "Ok", top_level_cargo_toml |-> "true",
      rust_toolchain_toml |-> "false"],
     [head_branch |-> "Err", top_level_cargo_toml |-> "true",
      rust_toolchain_toml |-> "false"],
     [head_branch |-> "Ok", top_level_cargo_toml |-> "false",
      rust_toolchain_toml |-> "false"],
     [head_branch |-> "Ok", top_level_cargo_toml |-> "true",
      rust_toolchain_toml |-> "Err"]}

\* try_exists(path): Ok(false), Ok(true) or Err
Dirs == {"absent", "present", "unreadable"}

\* the checks every candidate that is sent has passed
Passing ==
    [head_branch |-> "Ok", top_level_cargo_toml |-> "true",
     rust_toolchain_toml |-> "false"]

\* what the checks find once git reset --hard origin/<head> has rewritten
\* the checkout: the head of origin may carry a rust-toolchain file or
\* lack the Cargo.toml that the checkout has
Origins ==
    Checks \cup {[head_branch |-> "Ok", top_level_cargo_toml |-> "true",
                  rust_toolchain_toml |-> "true"]}

NoCheckout ==
    [dir |-> "absent", clone |-> "Err", checks |-> Passing, origin |-> Passing,
     fetch |-> "Ok"]

\* a clone is only ever tried for an absent directory; the checks are
\* those of a checkout that is or can be there; sync_existing (fetch is
\* what its git fetch and git reset end with, origin what the checks find
\* after them) only runs on a checkout that passed the checks.
\* NoCheckout stands for a candidate without a repository
Checkouts ==
    {c \in [dir : Dirs, clone : {"Ok", "Err"}, checks : Checks,
            origin : Origins, fetch : {"Ok", "Err"}] :
        /\ c.dir # "absent" => c.clone = "Ok"
        /\ (c.dir = "unreadable" \/ c.clone = "Err") => c.checks = Passing
        /\ (c.dir = "unreadable" \/ c.clone = "Err" \/ c.checks # Passing) =>
               c.fetch = "Ok"
        /\ (c.checks # Passing \/ c.fetch = "Err" \/ c.dir = "unreadable"
              \/ c.clone = "Err") => c.origin = c.checks}

\* sync_existing on the checkout c: its result and the checkout after it.
\* A fetch or reset that fails leaves the checkout as it was
sync_existing(c) ==
    IF c.fetch = "Err" THEN [ret |-> "Err", checkout |-> c]
    ELSE [ret |-> "Ok", checkout |-> [c EXCEPT !.checks = c.origin]]

\* ensure_at clones whatever it finds
ensure_at_always_cloning(c) ==
    IF c.dir = "unreadable" THEN [ret |-> "Err", checkout |-> c, cloned |-> FALSE]
    ELSE [ret |-> c.clone, checkout |-> [c EXCEPT !.dir = "present"],
          cloned |-> TRUE]

\* ensure_at on the checkout c: its result, the checkout after it and
\* whether git clone ran
ensure_at(c) ==
    IF c.dir = "unreadable" THEN [ret |-> "Err", checkout |-> c, cloned |-> FALSE]
    ELSE IF c.dir = "present" THEN [ret |-> "Ok", checkout |-> c, cloned |-> FALSE]
    ELSE IF c.clone = "Ok"
         THEN [ret |-> "Ok", checkout |-> [c EXCEPT !.dir = "present"],
               cloned |-> TRUE]
         ELSE [ret |-> "Err", checkout |-> c, cloned |-> TRUE]

\* CrateReadyForAnalysis { repo_root, head_branch, pruned_crate }: the head
\* branch is the one find_remote_head_branch gave in the join of the checks,
\* before sync_existing
WorkItem(i, head_branch) ==
    [repo_root |-> i, head_branch |-> head_branch, pruned_crate |-> i]

\* a run: the directories it found, the candidates it cloned, the WorkItems
\* it sent, and the head branch the last join of the checks found
NewRun(w) ==
    [dir_before |-> [i \in DOMAIN w |-> w[i].dir], cloned |-> {}, emitted |-> {},
     head_branch |-> "none"]

IdleRerun ==
    /\ workdir = <<>>
    /\ runs = <<>>
    /\ run_log = NewRun(<<>>)

InitRerun ==
    /\ crates \in CandidateLists
    /\ should_sync \in BOOLEAN
    /\ sync = NewSync
    /\ \E cap \in 1..MaxClones : work = NewWork(cap)
    /\ workdir \in [DOMAIN crates -> Checkouts]
    /\ \A i \in DOMAIN crates : crates[i] \/ workdir[i] = NoCheckout
    /\ should_sync \/ \A i \in DOMAIN crates :
          workdir[i].origin = workdir[i].checks /\ workdir[i].fetch = "Ok"
    /\ runs = <<>>
    /\ run_log = NewRun(workdir)

\* the step sync_task awaits ends as the checkout has it
RerunStep ==
    /\ sync.pc \in {"ensure_at", "join", "sync_existing"}
    /\ sync.ext = None
    /\ LET i == sync.idx
           e == ensure_at(workdir[i])
           x == sync_existing(workdir[i])
       IN  IF sync.pc = "ensure_at"
           THEN /\ sync' = [sync EXCEPT !.ext = Some(e.ret)]
                /\ workdir' = [workdir EXCEPT ![i] = e.checkout]
                /\ run_log' = [run_log EXCEPT !.cloned =
                                   IF e.cloned THEN @ \cup {i} ELSE @]
           ELSE IF sync.pc = "join"
           THEN /\ sync' = [sync EXCEPT !.ext = Some(workdir[i].checks)]
                /\ run_log' = [run_log EXCEPT
                                   !.head_branch = workdir[i].checks.head_branch]
                /\ UNCHANGED workdir
           ELSE /\ sync' = [sync EXCEPT !.ext = Some(x.ret)]
                /\ workdir' = [workdir EXCEPT ![i] = x.checkout]
                /\ UNCHANGED run_log
    /\ UNCHANGED <<crates, should_sync, work, runs>>
    /\ UNCHANGED notStageRerun

\* the runtime polls sync_task
RerunPoll ==
    /\ sync.pc # "done"
    /\ sync.ext # None \/ sync.pc \in {"loop", "send"}
    /\ LET st == sync_task([sync |-> sync, work |-> work])
       IN  /\ st.sync # sync \/ st.work # work
           /\ sync' = st.sync
           /\ work' = st.work
           /\ run_log' = [run_log EXCEPT !.emitted =
                              IF st.work.emitted > work.emitted
                              THEN @ \cup {WorkItem(sync.idx, run_log.head_branch)}
                              ELSE @]
    /\ UNCHANGED <<crates, should_sync, workdir, runs>>
    /\ UNCHANGED notStageRerun

\* sync_task has returned; the program is run again on the same directory
NextRun ==
    /\ sync.pc = "done"
    /\ Len(runs) < MaxRuns
    /\ runs' = Append(runs, run_log)
    /\ IF Len(runs) + 1 < MaxRuns
       THEN /\ sync' = NewSync
            /\ work' = NewWork(work.cap)
            /\ run_log' = NewRun(workdir)
       ELSE UNCHANGED <<sync, work, run_log>>
    /\ UNCHANGED <<crates, should_sync, workdir>>
    /\ UNCHANGED notStageRerun

NextRerun ==
    \/ RerunStep
    \/ RerunPoll
    \/ WorkRecv
    \/ NextRun

(***************************************************************************)
(* lib.rs exec_parallel: the WorkItem channel is made by the task of the   *)
(* configured crate source, git.rs run_sync_task or local_crates.rs        *)
(* local_crate_find_task, and its receiver handed to analysis_task.        *)
(* find_local_crates_in suspends where it awaits the file system (read_dir *)
(* and, per entry, next_entry, metadata and verify_crate_in) and where the *)
(* channel is full.                                                        *)
(***************************************************************************)
CrateSources == {"GitSync", "LocalCrates"}

\* gs.git_clone_max_concurrent, config.analysis_max_concurrent and
\* consumer_opts.max_crates; a source ignores the field it does not read
Configs ==
    [crate_source : {"GitSync"},
     git_clone_max_concurrent : 1..MaxEntries,
     analysis_max_concurrent : 1..MaxConcurrent,
     max_crates : {0}]
    \cup
    [crate_source : {"LocalCrates"},
     git_clone_max_concurrent : {1},
     analysis_max_concurrent : 1..MaxConcurrent,
     max_crates : 0..MaxEntries]

\* run_sync_task: channel(max_concurrent.get()), called with
\* gs.git_clone_max_concurrent; local_crate_find_task:
\* channel(num_analysis_concurrent.get() * 2), called with
\* config.analysis_max_concurrent
channel_capacity(cfg) ==
    IF cfg.crate_source = "GitSync"
    THEN cfg.git_clone_max_concurrent
    ELSE cfg.analysis_max_concurrent * 2

FeedCandidateLists == UNION {[1..n -> BOOLEAN] : n \in 0..MaxEntries}

ReadDirResults == {"Ok", "Err"}

\* what the awaits on one directory entry end with: a directory that
\* verify_crate_in accepts and no exclusion matches, an entry the loop
\* passes over (not a directory, not verified, excluded), the end of the
\* directory, a failing next_entry or metadata
DirEntryResults == {"crate", "skipped", "end", "Err"}

NewFinder(max_crates) ==
    [pc |-> "read_dir", max_crates |-> max_crates, ext |-> None,
     ret |-> "none", entries |-> 0]

finder_return(st, r) ==
    [st EXCEPT !.finder.pc = "done", !.finder.ret = r, !.finder.ext = None]

finder_await(st, pc) == [st EXCEPT !.finder.pc = pc, !.finder.ext = None]

\* usize::saturating_sub(1)
saturating_sub_1(n) == IF n = 0 THEN 0 ELSE n - 1

\* one poll of find_local_crates_in from st = [finder, work]
RECURSIVE find_local_crates_in(_)
find_local_crates_in(st) ==
    LET pc == st.finder.pc
        ext == st.finder.ext
    IN
    IF pc = "read_dir"
    THEN IF ext = None THEN st
         ELSE IF ext[1] = "Err" THEN finder_return(st, "Err")
         ELSE finder_await(st, "next_entry")
    ELSE IF pc = "next_entry"
    THEN IF ext = None THEN st
         ELSE IF ext[1] = "Err" THEN finder_return(st, "Err")
         ELSE IF ext[1] = "end" THEN finder_return(st, "Ok")
         ELSE IF ext[1] = "skipped" THEN finder_await(st, "next_entry")
         ELSE find_local_crates_in(finder_await(st, "send"))
    ELSE IF pc = "send"
    THEN IF st.work.receiver = "dropped" THEN finder_return(st, "Err")
         ELSE IF st.work.len < st.work.cap
              THEN LET sent == [st EXCEPT
                           !.work.len = @ + 1, !.work.emitted = @ + 1,
                           !.finder.max_crates = saturating_sub_1(@)]
                   IN IF sent.finder.max_crates = 0
                      THEN finder_return(sent, "Ok")
                      ELSE finder_await(sent, "next_entry")
              ELSE st
    ELSE st

\* in the specification of another part no crate source is configured
IdleFeed ==
    /\ config = "idle"
    /\ finder = "idle"

\* exec_parallel has spawned the task of the crate source: the channel is
\* made, with_stop is called, nothing is polled yet
InitFeed ==
    /\ config \in Configs
    /\ IF config.crate_source = "GitSync"
       THEN crates \in FeedCandidateLists /\ should_sync \in BOOLEAN
       ELSE crates = <<>> /\ should_sync = FALSE
    /\ sync = NewSync
    /\ finder = NewFinder(config.max_crates)
    /\ work = NewWork(channel_capacity(config))
    /\ NewStopChannel
    /\ call = NewCall(1)

\* the file-system step find_local_crates_in awaits at pc ends with r,
\* having read n more entries of the directory
FinderStepDone(pc, r, n) ==
    /\ config.crate_source = "LocalCrates"
    /\ call.state = "pending"
    /\ finder.pc = pc
    /\ finder.ext = None
    /\ finder' = [finder EXCEPT !.ext = Some(r), !.entries = @ + n]
    /\ UNCHANGED <<config, stageVars>>
    /\ UNCHANGED stopVars
    /\ UNCHANGED notStageFeed

\* tokio::fs::read_dir(path)
ReadDirDone(r) == FinderStepDone("read_dir", r, 0)

\* rd.next_entry(), next.metadata(), verify_crate_in and the exclusions
DirEntryDone(r) ==
    /\ r \in {"crate", "skipped"} => finder.entries < MaxEntries
    /\ FinderStepDone("next_entry", r, IF r \in {"crate", "skipped"} THEN 1 ELSE 0)

\* the runtime polls the spawned task: select! polls the receiver and
\* find_local_crates_in in the order drawn
FinderPoll(start) ==
    /\ config.crate_source = "LocalCrates"
    /\ call.state = "pending"
    /\ LET polls_future == ~(start = 0 /\ recv_ready(stop_chan))
           st == IF polls_future
                 THEN find_local_crates_in([finder |-> finder, work |-> work])
                 ELSE [finder |-> finder, work |-> work]
           w == with_stop(start, stop_chan, polls_future /\ st.finder.pc = "done")
       IN /\ finder' = st.finder
          /\ work' = st.work
          /\ stop_chan' = w.chan
          /\ stop_rx' = IF w.ret = "Pending" THEN stop_rx ELSE "dropped"
          /\ ack' = IF w.acked THEN "sent"
                    ELSE IF w.ret = "Some" /\ stop_chan = "request" THEN "dropped"
                    ELSE ack
          /\ call' = [call EXCEPT
                !.state = IF w.ret = "Pending" THEN "pending" ELSE w.ret,
                !.op = IF w.ret = "Some" THEN "taken"
                       ELSE IF w.ret = "None" THEN "dropped" ELSE @,
                !.acks = @ + (IF w.acked THEN 1 ELSE 0),
                !.seen = <<stop_chan,
                           IF polls_future /\ st.finder.pc = "done"
                           THEN "ready" ELSE "pending">>,
                !.polled = @ \/ polls_future]
    /\ UNCHANGED <<config, crates, should_sync, sync, stopper, sent_when>>
    /\ UNCHANGED notStageFeed

\* within one poll find_local_crates_in runs on past an await whose step
\* had ended when it was polled (read_dir and next_entry may end at once):
\* the stop request is not looked at in between.  When the function
\* returns, with_stop returns Some
FinderRun ==
    /\ config.crate_source = "LocalCrates"
    /\ call.state = "pending"
    /\ LET st == find_local_crates_in([finder |-> finder, work |-> work])
           done == st.finder.pc = "done"
       IN /\ st # [finder |-> finder, work |-> work]
          /\ finder' = st.finder
          /\ work' = st.work
          /\ stop_rx' = IF done THEN "dropped" ELSE stop_rx
          /\ ack' = IF done /\ stop_chan = "request" THEN "dropped" ELSE ack
          /\ call' = [call EXCEPT
                !.state = IF done THEN "Some" ELSE @,
                !.op = IF done THEN "taken" ELSE @,
                !.seen = IF done THEN <<stop_chan, "ready">> ELSE @,
                !.polled = TRUE]
    /\ UNCHANGED <<config, crates, should_sync, sync, stop_chan, stopper, sent_when>>
    /\ UNCHANGED notStageFeed

\* the steps of the git source run only when it is the configured one
GitSyncStep ==
    /\ config.crate_source = "GitSync"
    /\ \/ \E r \in EnsureAtResults : EnsureAtDone(r)
       \/ \E r \in JoinResults : JoinDone(r)
       \/ \E r \in SyncExistingResults : SyncExistingDone(r)
       \/ \E start \in Branches : StagePoll(start)
       \/ StageRun

NextFeed ==
    \/ GitSyncStep
    \/ \E r \in ReadDirResults : ReadDirDone(r)
    \/ \E r \in DirEntryResults : DirEntryDone(r)
    \/ \E start \in Branches : FinderPoll(start)
    \/ FinderRun
    \/ WorkRecv
    \/ WorkReceiverDrop
    \/ SenderStop
    \/ SenderResume
    \/ SenderDrop

(***************************************************************************)
(* lib.rs: exec_parallel.  It awaits the preparation (the two formatter    *)
(* builds, with the git source joined with the fetch of the candidates)    *)
(* under the user's StopReceiver, spawns the task of the crate source and  *)
(* analysis_task, each under a StopReceiver of its own, opens the report,  *)
(* drains the result channel under the user's StopReceiver, finishes the   *)
(* report and stops the two tasks.  The candidates and the analyses are    *)
(* counted, not told apart; an analysis that was spawned ends (every       *)
(* formatter run is bounded by the timeout).                               *)
(***************************************************************************)
ExecTasks == {"sync", "analysis"}

\* the two builds joined instead of sequenced
may_start_joined(which, b) == b[which] = "todo"

\* build_sequential: build_rustfmt(&rustfmt_repo).await? comes first and
\* build_rustfmt(&rustfmt_upstream_repo).await? after it returned Ok
may_start(which, b) ==
    IF which = "local" THEN b.local = "todo"
    ELSE b.local = "Ok" /\ b.upstream = "todo"

\* tokio::try_join!(build_task, fetch_and_process_crates(..)), or
\* build_sequential(..).await alone for the local source: "Err" as soon as
\* one of them failed, "Ok" when all of them ended, "Pending" otherwise
prepare_output(b) ==
    IF "Err" \in {b.local, b.upstream, b.fetch} THEN "Err"
    ELSE IF b.upstream = "Ok" /\ b.fetch \in {"Ok", "none"} THEN "Ok"
    ELSE "Pending"

\* a future that is dropped drops what it was running
drop_prepare(b) ==
    [x \in DOMAIN b |-> IF b[x] = "running" THEN "dropped" ELSE b[x]]

\* exec_parallel goes on whatever with_stop returned for the preparation
on_prepare_ignoring_stop(ret, output) ==
    IF ret = "Some" /\ output = "Err" THEN [pc |-> "returned", ret |-> "Err"]
    ELSE [pc |-> "spawn", ret |-> "none"]

\* the let-else on with_stop(prepare..).await.transpose()?: None returns
\* Ok(()), Some(Err(e)) returns the error, Some(Ok(..)) goes on
on_prepare(ret, output) ==
    IF ret = "None" THEN [pc |-> "returned", ret |-> "Ok"]
    ELSE IF output = "Err" THEN [pc |-> "returned", ret |-> "Err"]
    ELSE [pc |-> "spawn", ret |-> "none"]

NewPrep(source) ==
    [local |-> "todo", upstream |-> "todo",
     fetch |-> IF source = "GitSync" THEN "running" ELSE "none"]

\* config.stop_receiver: its request channel, the with_stop calls made on
\* it, whether one of them returned None and whether one was made after
NewUser == [chan |-> "empty", ack |-> "none", calls |-> 0,
            stopped |-> FALSE, reused |-> FALSE]

\* config.stop_receiver.with_stop(..) is called
call_with_stop(u) ==
    [u EXCEPT !.calls = @ + 1, !.reused = @ \/ u.stopped]

\* a stage task, its StopReceiver (request channel, acknowledgment) and
\* the StopSender exec_parallel holds for it
NewStageTask ==
    [state |-> "unspawned", chan |-> "empty", ack |-> "none",
     sender |-> "held", calls |-> 0]

\* the WorkItem channel, analysis_task's position and its FuturesUnordered,
\* the result on_analysis is waiting to send, the result channel, the
\* add_result drain_analyses is suspended in, the results it tallied and
\* those whose add_result was dropped, the report
NewPipe(todo, cap, max_concurrent) ==
    [todo |-> todo, work_len |-> 0, work_cap |-> cap,
     work_tx |-> "alive", work_rx |-> "alive",
     max_concurrent |-> max_concurrent, apc |-> "recv", unordered |-> 0,
     sending |-> 0,
     res_len |-> 0, res_tx |-> "alive", res_rx |-> "alive",
     adding |-> 0, tallied |-> 0, cut |-> 0, report |-> "none"]

NewExec(source) == [pc |-> "prepare", ret |-> "none", source |-> source]

\* in the specification of another part exec_parallel is not called
IdleExec ==
    /\ exec = "idle"
    /\ prep = "idle"
    /\ user = "idle"
    /\ stage_task = "idle"
    /\ pipe = "idle"

\* exec_parallel has called with_stop on the preparation; or, further into
\* a run over many local crates, it has called with_stop on
\* drain_analyses, which was not polled since, and the analyses that
\* ended have filled the result channel: analysis_task is back at
\* recv.recv() after a handle was joined at the cap, so unordered holds
\* max_concurrent - 1 handles
InitExec ==
    \E cfg \in Configs, todo \in 0..MaxWork :
       LET start == NewPipe(todo, channel_capacity(cfg),
                            cfg.analysis_max_concurrent)
       IN  \/ /\ exec = NewExec(cfg.crate_source)
              /\ prep = NewPrep(cfg.crate_source)
              /\ pipe = start
              /\ user = call_with_stop(NewUser)
              /\ stage_task = [t \in ExecTasks |-> NewStageTask]
           \/ /\ cfg.crate_source = "LocalCrates"
              /\ exec = [NewExec(cfg.crate_source) EXCEPT !.pc = "drain"]
              /\ prep = [local |-> "Ok", upstream |-> "Ok", fetch |-> "none"]
              /\ pipe = [start EXCEPT
                            !.unordered = cfg.analysis_max_concurrent - 1,
                            !.res_len = ResultChannelCapacity,
                            !.report = "open"]
              /\ user = call_with_stop(call_with_stop(NewUser))
              /\ stage_task = [t \in ExecTasks |->
                                  [NewStageTask EXCEPT !.state = "running",
                                                       !.calls = 1]]

\* a return that leaves the StopSenders alive
drop_senders_leaking(st) == st

\* the function returns: its locals are dropped, the StopSenders it still
\* holds and the result receiver among them
drop_senders(st) ==
    [t \in ExecTasks |->
        IF st[t].sender = "held"
        THEN [st[t] EXCEPT !.sender = "dropped",
                           !.chan = IF st[t].state = "running"
                                    THEN "closed" ELSE @]
        ELSE st[t]]

\* build_rustfmt is called for the local or the upstream repository
BuildStart(which) ==
    /\ exec.pc = "prepare"
    /\ may_start(which, prep)
    /\ prep' = [prep EXCEPT ![which] = "running"]
    /\ UNCHANGED <<exec, user, stage_task, pipe>>
    /\ UNCHANGED notExec

\* a build ends
BuildEnd(which, r) ==
    /\ exec.pc = "prepare"
    /\ prep[which] = "running"
    /\ prep' = [prep EXCEPT ![which] = r]
    /\ UNCHANGED <<exec, user, stage_task, pipe>>
    /\ UNCHANGED notExec

\* fetch_and_process_crates ends
FetchEnd(r) ==
    /\ exec.pc = "prepare"
    /\ prep.fetch = "running"
    /\ prep' = [prep EXCEPT !.fetch = r]
    /\ UNCHANGED <<exec, user, stage_task, pipe>>
    /\ UNCHANGED notExec

\* a poll of with_stop(prepare..) that returns
PreparePoll(start) ==
    /\ exec.pc = "prepare"
    /\ LET out == prepare_output(prep)
           w == with_stop(start, user.chan, out # "Pending")
           to == on_prepare(w.ret, out)
       IN  /\ w.ret # "Pending"
           /\ user' = [user EXCEPT !.chan = w.chan,
                                   !.ack = IF w.acked THEN "sent" ELSE @,
                                   !.stopped = @ \/ w.ret = "None"]
           /\ prep' = drop_prepare(prep)
           /\ exec' = [exec EXCEPT !.pc = to.pc, !.ret = to.ret]
    /\ UNCHANGED <<stage_task, pipe>>
    /\ UNCHANGED notExec

\* run_sync_task or local_crate_find_task, then the spawn of analysis_task:
\* each spawned task calls with_stop on its own receiver
Spawn ==
    /\ exec.pc = "spawn"
    /\ stage_task' = [t \in ExecTasks |->
                         [stage_task[t] EXCEPT !.state = "running", !.calls = @ + 1]]
    /\ exec' = [exec EXCEPT !.pc = "report_new"]
    /\ UNCHANGED <<prep, user, pipe>>
    /\ UNCHANGED notExec

\* AnalysisReport::new(config.output_dir).await?, then the call of
\* with_stop on drain_analyses
ReportNew(r) ==
    /\ exec.pc = "report_new"
    /\ IF r = "Ok"
       THEN /\ exec' = [exec EXCEPT !.pc = "drain"]
            /\ user' = call_with_stop(user)
            /\ pipe' = [pipe EXCEPT !.report = "open"]
            /\ UNCHANGED stage_task
       ELSE /\ exec' = [exec EXCEPT !.pc = "returned", !.ret = "Err"]
            /\ stage_task' = drop_senders(stage_task)
            /\ pipe' = [pipe EXCEPT !.res_rx = "dropped"]
            /\ UNCHANGED user
    /\ UNCHANGED prep
    /\ UNCHANGED notExec

\* drain_analyses: recv() yields a result and add_result is called with
\* it; add_result runs to its end in the same poll, or it suspends in one
\* of its awaits with nothing tallied yet
DrainRecv(suspends) ==
    /\ exec.pc = "drain"
    /\ pipe.adding = 0
    /\ pipe.res_len > 0
    /\ pipe' = IF suspends
               THEN [pipe EXCEPT !.res_len = @ - 1, !.adding = 1]
               ELSE [pipe EXCEPT !.res_len = @ - 1, !.tallied = @ + 1]
    /\ UNCHANGED <<exec, prep, user, stage_task>>
    /\ UNCHANGED notExec

\* the suspended add_result is polled to its end
DrainAddResult ==
    /\ exec.pc = "drain"
    /\ pipe.adding = 1
    /\ pipe' = [pipe EXCEPT !.adding = 0, !.tallied = @ + 1]
    /\ UNCHANGED <<exec, prep, user, stage_task>>
    /\ UNCHANGED notExec

\* a poll of with_stop(drain_analyses(..)) that returns: drain_analyses
\* has returned when no add_result is running and the result channel is
\* closed and empty; either way the future is dropped, and with it the
\* result receiver and an add_result that was suspended
DrainPoll(start) ==
    /\ exec.pc = "drain"
    /\ LET ready == pipe.adding = 0 /\ pipe.res_len = 0 /\ pipe.res_tx = "dropped"
           w == with_stop(start, user.chan, ready)
       IN  /\ w.ret # "Pending"
           /\ user' = [user EXCEPT !.chan = w.chan,
                                   !.ack = IF w.acked THEN "sent" ELSE @,
                                   !.stopped = @ \/ w.ret = "None"]
    /\ pipe' = [pipe EXCEPT !.res_rx = "dropped", !.adding = 0,
                            !.cut = @ + pipe.adding]
    /\ exec' = [exec EXCEPT !.pc = "finish_report"]
    /\ UNCHANGED <<prep, stage_task>>
    /\ UNCHANGED notExec

\* report.finish_report(..).await?
ExecFinishReport(r) ==
    /\ exec.pc = "finish_report"
    /\ IF r = "Ok"
       THEN /\ exec' = [exec EXCEPT !.pc = "stop_sync"]
            /\ pipe' = [pipe EXCEPT !.report = "finished"]
            /\ UNCHANGED stage_task
       ELSE /\ exec' = [exec EXCEPT !.pc = "returned", !.ret = "Err"]
            /\ stage_task' = drop_senders(stage_task)
            /\ UNCHANGED pipe
    /\ UNCHANGED <<prep, user>>
    /\ UNCHANGED notExec

StopPc(t) == IF t = "sync" THEN "stop_sync" ELSE "stop_analysis"

\* after sync_stop_send.stop().await comes analysis_stop_send.stop().await,
\* after that Ok(())
after_stop(e, t) ==
    IF t = "sync" THEN [e EXCEPT !.pc = "stop_analysis"]
    ELSE [e EXCEPT !.pc = "returned", !.ret = "Ok"]

\* StopSender::stop up to recv.await: the send fails when the task has
\* ended and dropped its receiver
StopCall(t) ==
    /\ exec.pc = StopPc(t)
    /\ stage_task[t].sender = "held"
    /\ IF stage_task[t].state # "running"
       THEN /\ stage_task' = [stage_task EXCEPT ![t].sender = "false"]
            /\ exec' = after_stop(exec, t)
       ELSE /\ stage_task' = [stage_task EXCEPT ![t].sender = "awaiting",
                                                ![t].chan = "request",
                                                ![t].ack = "pending"]
            /\ UNCHANGED exec
    /\ UNCHANGED <<prep, user, pipe>>
    /\ UNCHANGED notExec

\* recv.await.is_ok()
StopResume(t) ==
    /\ exec.pc = StopPc(t)
    /\ stage_task[t].sender = "awaiting"
    /\ stage_task[t].ack \in {"sent", "dropped"}
    /\ stage_task' = [stage_task EXCEPT ![t].sender =
                         IF stage_task[t].ack = "sent" THEN "true" ELSE "false"]
    /\ exec' = after_stop(exec, t)
    /\ UNCHANGED <<prep, user, pipe>>
    /\ UNCHANGED notExec

\* sync_task or find_local_crates_in has returned: no candidate is left,
\* or its send found the receiver gone; analysis_task has returned: the
\* WorkItem channel is closed, every handle was joined and on_analysis
\* has returned for the last of them
task_ready(t, p) ==
    IF t = "sync" THEN p.todo = 0 \/ p.work_rx = "dropped"
    ELSE p.apc = "drain" /\ p.unordered = 0 /\ p.sending = 0

\* analysis_task ending with its Sender<CrateAnalysis> kept alive elsewhere
drop_task_keeping_result_sender(t, p) ==
    IF t = "sync" THEN [p EXCEPT !.work_tx = "dropped"]
    ELSE [p EXCEPT !.work_rx = "dropped"]

\* what a stage task owns is dropped with it: the crate source owns the
\* Sender of the WorkItem channel, analysis_task its Receiver, the Sender
\* of the result channel and the result on_analysis was waiting to send
drop_task(t, p) ==
    IF t = "sync" THEN [p EXCEPT !.work_tx = "dropped"]
    ELSE [p EXCEPT !.work_rx = "dropped", !.res_tx = "dropped",
                   !.sending = 0]

\* a poll of a stage task's with_stop that returns: the task ends and
\* drops its receiver and its ends of the channels
TaskPoll(t, start) ==
    /\ stage_task[t].state = "running"
    /\ LET w == with_stop(start, stage_task[t].chan, task_ready(t, pipe))
       IN  /\ w.ret # "Pending"
           /\ stage_task' = [stage_task EXCEPT
                 ![t].state = IF w.ret = "Some" THEN "done" ELSE "stopped",
                 ![t].chan = w.chan,
                 ![t].ack = IF w.acked THEN "sent"
                            ELSE IF stage_task[t].chan = "request" THEN "dropped"
                            ELSE @]
    /\ pipe' = drop_task(t, pipe)
    /\ UNCHANGED <<exec, prep, user>>
    /\ UNCHANGED notExec

\* the crate source sends the WorkItem of its next candidate; a full
\* channel makes it wait
SyncEmit ==
    /\ stage_task["sync"].state = "running"
    /\ pipe.todo > 0
    /\ pipe.work_rx = "alive"
    /\ pipe.work_len < pipe.work_cap
    /\ pipe' = [pipe EXCEPT !.todo = @ - 1, !.work_len = @ + 1]
    /\ UNCHANGED <<exec, prep, user, stage_task>>
    /\ UNCHANGED notExec

\* the crate source passes over its next candidate
SyncSkip ==
    /\ stage_task["sync"].state = "running"
    /\ pipe.todo > 0
    /\ pipe' = [pipe EXCEPT !.todo = @ - 1]
    /\ UNCHANGED <<exec, prep, user, stage_task>>
    /\ UNCHANGED notExec

\* analysis_task: recv.recv() yields a WorkItem, its analysis is spawned
AnalysisRecv ==
    /\ stage_task["analysis"].state = "running"
    /\ pipe.apc = "recv"
    /\ pipe.sending = 0
    /\ pipe.work_len > 0
    /\ pipe' = [pipe EXCEPT
          !.work_len = @ - 1,
          !.unordered = @ + 1,
          !.apc = IF at_capacity(pipe.unordered + 1, pipe.max_concurrent)
                  THEN "next" ELSE "recv"]
    /\ UNCHANGED <<exec, prep, user, stage_task>>
    /\ UNCHANGED notExec

\* recv.recv() yields None
AnalysisRecvClosed ==
    /\ stage_task["analysis"].state = "running"
    /\ pipe.apc = "recv"
    /\ pipe.work_len = 0
    /\ pipe.work_tx = "dropped"
    /\ pipe' = [pipe EXCEPT !.apc = "drain"]
    /\ UNCHANGED <<exec, prep, user, stage_task>>
    /\ UNCHANGED notExec

\* unordered.next().await yields a handle and on_analysis is called with
\* its value: it returns in the same poll, unless it has a result to send
\* and the result channel is full, where send.send(res).await suspends
AnalysisJoin(res) ==
    /\ stage_task["analysis"].state = "running"
    /\ pipe.apc \in {"next", "drain"}
    /\ pipe.sending = 0
    /\ pipe.unordered > 0
    /\ LET r == on_analysis(res, pipe.res_rx = "alive")
           waits == r.sent /\ pipe.res_len >= ResultChannelCapacity
       IN  pipe' = IF waits
                   THEN [pipe EXCEPT !.unordered = @ - 1, !.sending = 1]
                   ELSE [pipe EXCEPT
                           !.unordered = @ - 1,
                           !.res_len = @ + (IF r.sent THEN 1 ELSE 0),
                           !.apc = IF @ = "next" THEN "recv" ELSE @]
    /\ UNCHANGED <<exec, prep, user, stage_task>>
    /\ UNCHANGED notExec

\* the suspended send.send(res).await ends: the channel has room for the
\* result, or the receiver was dropped and the error is logged
AnalysisSend ==
    /\ stage_task["analysis"].state = "running"
    /\ pipe.sending = 1
    /\ LET r == on_analysis("Some", pipe.res_rx = "alive")
       IN  /\ r.sent => pipe.res_len < ResultChannelCapacity
           /\ pipe' = [pipe EXCEPT
                 !.sending = 0,
                 !.res_len = @ + (IF r.sent THEN 1 ELSE 0),
                 !.apc = IF @ = "next" THEN "recv" ELSE @]
    /\ UNCHANGED <<exec, prep, user, stage_task>>
    /\ UNCHANGED notExec

\* main's StopSender::stop on the user's interrupt
UserStopRequest ==
    /\ exec.pc # "returned"
    /\ user.chan = "empty"
    /\ user' = [user EXCEPT !.chan = "request", !.ack = "pending"]
    /\ UNCHANGED <<exec, prep, stage_task, pipe>>
    /\ UNCHANGED notExec

ExecProgress ==
    \/ \E which \in {"local", "upstream"} : BuildStart(which)
    \/ \E which \in {"local", "upstream"}, r \in {"Ok", "Err"} : BuildEnd(which, r)
    \/ \E r \in {"Ok", "Err"} : FetchEnd(r)
    \/ \E start \in Branches : PreparePoll(start)
    \/ Spawn
    \/ \E r \in {"Ok", "Err"} : ReportNew(r)
    \/ \E suspends \in BOOLEAN : DrainRecv(suspends)
    \/ DrainAddResult
    \/ \E start \in Branches : DrainPoll(start)
    \/ \E r \in {"Ok", "Err"} : ExecFinishReport(r)
    \/ \E t \in ExecTasks : StopCall(t)
    \/ \E t \in ExecTasks : StopResume(t)
    \/ \E t \in ExecTasks, start \in Branches : TaskPoll(t, start)
    \/ SyncEmit
    \/ SyncSkip
    \/ AnalysisRecv
    \/ AnalysisRecvClosed
    \/ \E res \in JobResults : AnalysisJoin(res)
    \/ AnalysisSend

\* the steps of exec_parallel itself and the polls of the stage tasks'
\* with_stop: what the stop protocol rests on
ExecControl ==
    \/ \E start \in Branches : PreparePoll(start)
    \/ Spawn
    \/ \E r \in {"Ok", "Err"} : ReportNew(r)
    \/ \E start \in Branches : DrainPoll(start)
    \/ \E r \in {"Ok", "Err"} : ExecFinishReport(r)
    \/ \E t \in ExecTasks : StopCall(t)
    \/ \E t \in ExecTasks : StopResume(t)
    \/ \E t \in ExecTasks, start \in Branches : TaskPoll(t, start)

NextExec ==
    \/ ExecProgress
    \/ UserStopRequest

(***************************************************************************)
(* The specifications: one part runs, the others stay idle.                *)
(***************************************************************************)
InitSpecConsumer == InitConsumer /\ IdleAnalyze /\ IdlePool /\ IdleStop /\ IdleStage
    /\ IdleScan
    /\ IdleBridge
    /\ IdleReport
    /\ IdleMain
    /\ IdleRerun
    /\ IdleFeed
    /\ IdleExec

SpecConsumer == InitSpecConsumer /\ [][NextConsumer]_vars

SpecOrders == InitSpecConsumer /\ [][NextOrders]_vars

InitSpecAnalyze == IdleConsumer /\ InitAnalyze /\ IdlePool /\ IdleStop /\ IdleStage
    /\ IdleScan
    /\ IdleBridge
    /\ IdleReport
    /\ IdleMain
    /\ IdleRerun
    /\ IdleFeed
    /\ IdleExec

SpecAnalyze == InitSpecAnalyze /\ [][NextAnalyze]_vars

InitSpecPool == IdleConsumer /\ IdleAnalyze /\ InitPool /\ IdleStop /\ IdleStage
    /\ IdleScan
    /\ IdleBridge
    /\ IdleReport
    /\ IdleMain
    /\ IdleRerun
    /\ IdleFeed
    /\ IdleExec

SpecPool == InitSpecPool /\ [][NextPool]_vars

\* the runtime keeps polling analysis_task, the WorkItem channel delivers,
\* and every spawned analysis terminates
FairSpecPool == SpecPool /\ WF_vars(PoolProgress) /\ WF_vars(DrainProgress)

InitSpecStop == IdleConsumer /\ IdleAnalyze /\ IdlePool /\ InitStop /\ IdleStage
    /\ IdleScan
    /\ IdleBridge
    /\ IdleReport
    /\ IdleMain
    /\ IdleRerun
    /\ IdleFeed
    /\ IdleExec

SpecStop == InitSpecStop /\ [][NextStop]_vars

\* the receiver's side goes on: its owner calls with_stop, the runtime
\* polls it, or the receiver is dropped; stop() is resumed once its
\* acknowledgment channel is resolved
ReceiverSide ==
    \/ CallWithStop
    \/ \E start \in Branches : Poll(start)
    \/ ReceiverDrop

FairSpecStop == SpecStop /\ WF_vars(ReceiverSide) /\ WF_vars(SenderResume)

InitSpecStage == IdleConsumer /\ IdleAnalyze /\ IdlePool /\ InitStage
    /\ IdleScan
    /\ IdleBridge
    /\ IdleReport
    /\ IdleMain
    /\ IdleRerun
    /\ IdleFeed
    /\ IdleExec

SpecStage == InitSpecStage /\ [][NextStage]_vars

InitSpecScan ==
    IdleConsumer /\ IdleAnalyze /\ IdlePool /\ IdleStop /\ IdleStage /\ InitScan
    /\ IdleBridge
    /\ IdleReport
    /\ IdleMain
    /\ IdleRerun
    /\ IdleFeed
    /\ IdleExec

SpecScan == InitSpecScan /\ [][NextScan]_vars

InitSpecBridge ==
    IdleConsumer /\ IdleAnalyze /\ IdlePool /\ IdleStop /\ IdleStage /\ IdleScan
    /\ InitBridge
    /\ IdleReport
    /\ IdleMain
    /\ IdleRerun
    /\ IdleFeed
    /\ IdleExec

SpecBridge == InitSpecBridge /\ [][NextBridge]_vars

InitSpecReport ==
    IdleConsumer /\ IdleAnalyze /\ IdlePool /\ IdleStop /\ IdleStage /\ IdleScan
    /\ IdleBridge /\ InitReport
    /\ IdleMain
    /\ IdleRerun
    /\ IdleFeed
    /\ IdleExec

SpecReport == InitSpecReport /\ [][NextReport]_vars

InitSpecMain ==
    IdleConsumer /\ IdleAnalyze /\ IdlePool /\ IdleStop /\ IdleStage /\ IdleScan
    /\ IdleBridge /\ IdleReport /\ InitMain
    /\ IdleRerun
    /\ IdleFeed
    /\ IdleExec

SpecMain == InitSpecMain /\ [][NextMain]_vars

InitSpecRerun ==
    IdleConsumer /\ IdleAnalyze /\ IdlePool /\ IdleStop /\ IdleScan
    /\ IdleBridge /\ IdleReport /\ IdleMain /\ InitRerun
    /\ IdleFeed
    /\ IdleExec

SpecRerun == InitSpecRerun /\ [][NextRerun]_vars

InitSpecFeed ==
    IdleConsumer /\ IdleAnalyze /\ IdlePool /\ IdleScan /\ IdleBridge
    /\ IdleReport /\ IdleMain /\ IdleRerun /\ InitFeed
    /\ IdleExec

SpecFeed == InitSpecFeed /\ [][NextFeed]_vars

InitSpecExec ==
    IdleConsumer /\ IdleAnalyze /\ IdlePool /\ IdleStop /\ IdleStage
    /\ IdleScan /\ IdleBridge /\ IdleReport /\ IdleMain /\ IdleRerun
    /\ IdleFeed /\ InitExec

SpecExec == InitSpecExec /\ [][NextExec]_vars

\* the runtime polls exec_parallel and the stage tasks; how long a build,
\* a clone or an analysis takes is left open
FairSpecExecStop == SpecExec /\ WF_vars(ExecControl)

\* every task the runtime holds is polled, every build and analysis ends
FairSpecExec == SpecExec /\ WF_vars(ExecProgress)

(***************************************************************************)
(* Claims about the Consumer.                                              *)
(***************************************************************************)
Max(a, b) == IF a >= b THEN a ELSE b

DistinctIds(b) == \A id \in 1..MaxIds : BagIds(b, id) <= 1

\* how many records with download count d are among the k most downloaded of bag b
TopKCount(b, k, d) ==
    Min(BagDownloads(b, d),
        Max(0, k - SumOver([x \in 1..MaxDownloads |-> BagDownloads(b, x)],
                           {x \in 1..MaxDownloads : x > d})))

SameDownloads(s, t) ==
    \A d \in 1..MaxDownloads : CountDownloads(s, d) = CountDownloads(t, d)

\* C4: after any sequence of eligible records with pairwise distinct crate
\* ids and max_crates = K >= 1, the heap holds min(K, n) records and their
\* download counts are the K largest of the input, as a multiset.
C4_TopK ==
    (consumer.max_crates >= 1 /\ DistinctIds(fed)) =>
        /\ Len(consumer.crates) = Min(consumer.max_crates, BagSize(fed))
        /\ \A d \in 1..MaxDownloads :
              CountDownloads(consumer.crates, d)
                  = TopKCount(fed, consumer.max_crates, d)

\* K = 2 and three distinct crates, the last of which evicted the least
\* downloaded one: downloads 1, 3, 2 leave {3, 2}
C4_Witness ==
    /\ consumer.max_crates = 2
    /\ DistinctIds(fed)
    /\ BagSize(fed) = 3
    /\ \A d \in 1..3 : BagDownloads(fed, d) = 1
    /\ last_consume = "replaced"
    /\ CountDownloads(consumer.crates, 3) = 1
    /\ CountDownloads(consumer.crates, 2) = 1
    /\ Len(consumer.crates) = 2

\* C5: no two retained candidates share a crate id.
C5_NoSharedId ==
    \A i, j \in DOMAIN consumer.crates :
        i # j => consumer.crates[i].crate_id # consumer.crates[j].crate_id

\* C6: two arrival orders of the same multiset of eligible records (crate ids
\* may repeat) leave the same multiset of download counts.
C6_OrderIndependent ==
    (BagSize(pending_b) = 0 /\ last_consume # "nothing_to_peek") =>
        SameDownloads(consumer.crates, consumer_b.crates)

\* the crate ids of the records in the heap
HeapIds(self) == {self.crates[i].crate_id : i \in 1..Len(self.crates)}

\* C32: after any sequence of consume calls contained_crate_ids is exactly
\* the set of the crate ids of the records in the heap.
C32_IdsMatchHeap ==
    consumer.contained_crate_ids = HeapIds(consumer)

\* C33: consume returns no error for any record and any max_crates, 0
\* included: a record that cannot be accepted is discarded and the heap
\* holds at most max_crates records.
C33_ConsumeNeverErr ==
    /\ last_consume # "nothing_to_peek"
    /\ Len(consumer.crates) <= consumer.max_crates

(***************************************************************************)
(* Claims about the analysis pool.                                         *)
(***************************************************************************)
\* C1: the analyses spawned and not yet completed never number more than
\* max_concurrent, and neither do the handles held in unordered.
C1_PoolCap ==
    /\ Cardinality(Running) <= pool.max_concurrent
    /\ Cardinality(unordered) <= pool.max_concurrent

\* more items than the cap: the pool is full, waits for a handle, and a
\* further item is still to come
C1_Witness ==
    /\ pool.max_concurrent = 2
    /\ pool.items = 3
    /\ pool.received = 2
    /\ pool.pc = "next"
    /\ Cardinality(Running) = 2

JoinedOnce ==
    \A j \in Jobs :
        /\ joined[j] <= 1
        /\ forwarded[j] <= joined[j]

AllCompleted ==
    \A j \in Jobs :
        /\ joined[j] = (IF j <= pool.items THEN 1 ELSE 0)
        /\ forwarded[j] = (IF j <= pool.items /\ job[j].result = "Some" THEN 1 ELSE 0)

\* C2: no handle is joined twice and no result forwarded twice; without a
\* stop, analysis_task terminates, and when it has, each of the M spawned
\* tasks was joined exactly once and exactly those that produced a result
\* were forwarded once.
C2_AllJoined ==
    /\ [](JoinedOnce /\ ((pool.pc = "done" /\ orch # "stopped") => AllCompleted))
    /\ <>(pool.pc = "done" \/ orch = "stopped")

\* three items under a cap of two, all joined, a result forwarded and an
\* error logged, no stop
C2_Witness ==
    /\ pool.pc = "done"
    /\ orch # "stopped"
    /\ pool.items = 3
    /\ pool.max_concurrent = 2
    /\ \A j \in Jobs : joined[j] = 1
    /\ job[1].result = "Err"
    /\ job[3].result = "Some"
    /\ forwarded = [j \in Jobs |-> IF j = 3 THEN 1 ELSE 0]

Failed(j) == joined[j] = 1 /\ job[j].result \in {"Err", "JoinErr"}

OthersDone ==
    /\ pool.pc = "done"
    /\ \A j \in 1..pool.items :
          /\ joined[j] = 1
          /\ job[j].result = "Some" => forwarded[j] = 1

\* C20: a task that ends with an error or fails to join is logged and sends
\* nothing, and the pool goes on: unless the user stops the run, every item
\* is still analysed and joined and every result forwarded, and the drain
\* ends without a failure.
C20_FailureOnlyLogged ==
    /\ [](\A j \in Jobs : Failed(j) => forwarded[j] = 0 /\ j \in pool.logged)
    /\ [](pool.pc = "stopped" => orch = "stopped")
    /\ [](orch \in {"draining", "finished", "stopped"})
    /\ (\E j \in Jobs : Failed(j)) ~> (OthersDone \/ orch = "stopped")

\* the first task failed to join, a later one had its result forwarded and
\* the drain finished
C20_Witness ==
    /\ orch = "finished"
    /\ pool.items = 3
    /\ job[1].result = "JoinErr"
    /\ pool.logged = {1}
    /\ forwarded = [j \in Jobs |-> IF j = 1 THEN 0 ELSE 1]
    /\ results.tallied = 2

\* C23: once the orchestrator has observed the user's stop (the with_stop
\* around drain_analyses returned None), analysis_task starts the analysis
\* of no further WorkItem.
C23_NoNewAnalysisAfterStop ==
    [][orch = "stopped" =>
          \A j \in Jobs : job[j].state = "unspawned" => job'[j].state = "unspawned"]_vars

\* C24: after a stop every result that was on the result channel when the
\* stop was observed is added to the report before finish_report: a stopped
\* orchestrator leaves no result on the channel.
C24_StoppedRunDrained ==
    orch = "stopped" => results.len = 0

(***************************************************************************)
(* Claims about the stop channel.                                          *)
(***************************************************************************)
\* C8: when the stop request is delivered while the operation passed to
\* with_stop is still pending, that call of with_stop returns None, has
\* dropped the operation and has sent exactly one acknowledgment; and no
\* call returns the operation's value after sending an acknowledgment.
C8_StopAbandons ==
    /\ call.acks <= 1
    /\ call.state = "Some" => call.acks = 0
    /\ (/\ sent_when.state = "pending"
        /\ sent_when.op = "pending"
        /\ sent_when.n = call.n
        /\ call.state # "pending") =>
          /\ call.state = "None"
          /\ call.op = "dropped"
          /\ call.acks = 1
          /\ ack = "sent"

\* the stop was requested after a call had returned Some and before the
\* next call: that next call has been made
StopAfterSome == sent_when.state = "Some" /\ call.n = sent_when.n + 1

\* C9 as stated: a stop requested after with_stop returned Some is observed
\* by the next with_stop call, which returns None and acknowledges it.
C9_NextCallStops ==
    (StopAfterSome /\ call.state # "pending") =>
        (call.state = "None" /\ call.acks = 1)

\* what stop() returned against what the receiver did
StopOutcome ==
    /\ stopper = "true" => ack = "sent"
    /\ stopper = "false" => (ack # "sent" /\ stop_rx = "dropped")
    /\ ack = "sent" => stopper \in {"awaiting", "true"}

\* C34: stop() returns true exactly when the receiver sent the
\* acknowledgment and false when the receiver was dropped before the
\* request or with the request unacknowledged; and while the receiver is
\* polled inside with_stop or dropped, a stop() that awaits returns.
C34_StopTerminates ==
    /\ []StopOutcome
    /\ (stopper = "awaiting") ~> (stopper \in {"true", "false"})

\* stop() returned false: with_stop had returned Some with the request in
\* the channel, and the receiver was dropped with it
C34_Witness ==
    /\ stopper = "false"
    /\ ack = "dropped"
    /\ call.state = "Some"
    /\ stop_chan = "request"

(***************************************************************************)
(* Claims about the acquisition stage.                                     *)
(***************************************************************************)
\* C10: when stop() sent its request before the stage task was first
\* polled, the stage emits no WorkItem and stop() does not return false,
\* for every candidate list and every polling order.
C10_StopBeforeStart ==
    (sent_when.n = 1 /\ sent_when.state = "pending" /\ ~sent_when.polled) =>
        (work.emitted = 0 /\ stopper # "false")

\* C11: sync_task returns an error only when the receiver of its output
\* channel is gone; a failed step of one candidate never ends the stage.
C11_ErrOnlyReceiverGone ==
    (sync.pc = "done" /\ sync.ret = "Err") => work.receiver = "dropped"

\* C22: a stop request takes effect in sync_task only at the top of the
\* per-candidate loop: when with_stop has returned None, sync_task is not
\* inside a candidate's sub-steps (ensure_at, the join of the checks,
\* sync_existing, the send of the WorkItem).
C22_StopOnlyAtLoopTop ==
    call.state = "None" => sync.pc \in {"loop", "done"}

\* C30: with resync enabled a WorkItem is sent only after sync_existing
\* succeeded: a candidate whose sync_existing failed is passed over, its
\* WorkItem neither sent nor waiting to be sent.
C30_EmitOnlyAfterResync ==
    [][(should_sync /\ sync.pc = "sync_existing" /\ sync.ext = Some("Err")) =>
          (work'.emitted = work.emitted /\ sync'.pc # "send")]_vars

(***************************************************************************)
(* Claims about analyze_crate.                                             *)
(***************************************************************************)
\* C3: for every identity the first insert into seen returns true and every
\* later one false, an identity once inserted stays in the set, and the
\* formatter runs and an analysis is pushed at most once per identity,
\* whatever the interleaving of the tasks.
C3_Dedup ==
    \A i \in Idents :
        /\ \A k \in DOMAIN insert_log[i] : insert_log[i][k] = (k = 1)
        /\ insert_log[i] # <<>> => i \in seen
        /\ fmt_runs[i] <= 1
        /\ analysed[i] <= 1
        /\ fmt_runs[i] > 0 => insert_log[i] # <<>>

\* one task is in the formatter for an identity while a second insert of
\* that identity has been refused
C3_Witness ==
    \E t \in Tasks :
        /\ task[t].pc = "local"
        /\ insert_log[CurIdent(t)] = <<TRUE, FALSE>>
        /\ fmt_runs[CurIdent(t)] = 1

HasDiff(a) == a.diff_output # None

NoError(a) == a.rustfmt_error = None

\* C7: when both builds ended as no-diff or diff(text), the analysis is not
\* diverged if neither diffed or both diffs are the same text; it is
\* diverged, as UpstreamOnly (reference only) if only upstream diffed, as
\* LocalOnly (candidate only) if only local diffed, and as DiffBetween if
\* both diffed with different text.
C7_TruthTable ==
    ca # None =>
        LET a == ca[1]
            up == a.upstream_rustfmt_analysis
            loc == a.local_rustfmt_analysis
        IN  (NoError(up) /\ NoError(loc)) =>
              /\ a.diverving_diff = diverged(a.diverging_diff)
              /\ (~HasDiff(up) /\ ~HasDiff(loc)) =>
                    (~a.diverving_diff /\ a.diverging_diff = "None")
              /\ (HasDiff(up) /\ ~HasDiff(loc)) =>
                    (a.diverving_diff /\ a.diverging_diff = "UpstreamOnly")
              /\ (~HasDiff(up) /\ HasDiff(loc)) =>
                    (a.diverving_diff /\ a.diverging_diff = "LocalOnly")
              /\ (HasDiff(up) /\ HasDiff(loc) /\ up.diff_output = loc.diff_output) =>
                    (~a.diverving_diff /\ a.diverging_diff = "None")
              /\ (HasDiff(up) /\ HasDiff(loc) /\ up.diff_output # loc.diff_output) =>
                    (a.diverving_diff /\ a.diverging_diff = "DiffBetween")

\* upstream diffed and the local build did not: an analysis marked UpstreamOnly
C7_Witness ==
    /\ ca # None
    /\ ca[1].upstream_rustfmt_analysis.diff_output = Some("X")
    /\ ca[1].local_rustfmt_analysis = [diff_output |-> None, rustfmt_error |-> None]
    /\ ca[1].diverging_diff = "UpstreamOnly"
    /\ ca[1].diverving_diff

\* the outcome an analysis records: the outcome of the build it came from
OutcomeOf(a) ==
    IF a.rustfmt_error # None THEN [kind |-> "Failure", text |-> a.rustfmt_error[1]]
    ELSE IF a.diff_output # None THEN [kind |-> "Diff", text |-> a.diff_output[1]]
    ELSE [kind |-> "Success", text |-> ""]

\* C21: for outcomes among no-diff, diff and error, an analysis whose
\* upstream build diffed while the local one did not (no diff or an error)
\* is diverged as UpstreamOnly, one whose local build diffed while the
\* upstream one did not is diverged as LocalOnly, and swapping the two
\* outcomes leaves the diverged flag as it is.
C21_DivergedWithErrors ==
    ca # None =>
        LET a == ca[1]
            up == a.upstream_rustfmt_analysis
            loc == a.local_rustfmt_analysis
        IN  /\ (HasDiff(up) /\ ~HasDiff(loc)) =>
                   (a.diverving_diff /\ a.diverging_diff = "UpstreamOnly")
            /\ (HasDiff(loc) /\ ~HasDiff(up)) =>
                   (a.diverving_diff /\ a.diverging_diff = "LocalOnly")
            /\ a.diverving_diff
                   = classify(OutcomeOf(loc), OutcomeOf(up))

\* the tasks that ran the upstream build on ident and have the local run
\* before them
AtLocal(ident) == {t \in Tasks : task[t].pc = "local" /\ CurIdent(t) = ident}

\* no-diff, diff or error, never a diff together with an error
OneOutcome(a) == ~(a.diff_output # None /\ a.rustfmt_error # None)

\* C29: for every analysed workspace the upstream build's formatter runs
\* first and the local build's second, whatever the upstream run ended
\* with: every upstream run is followed by the local run and the push of
\* the analysis, and an analysis carries one outcome per build.
C29_BothBuildsRun ==
    /\ \A i \in Idents : fmt_runs[i] = analysed[i] + Cardinality(AtLocal(i))
    /\ \A t \in Tasks : task[t].pc = "local" => task[t].upstream # None
    /\ ca # None =>
           /\ OneOutcome(ca[1].upstream_rustfmt_analysis)
           /\ OneOutcome(ca[1].local_rustfmt_analysis)

\* an analysis whose upstream run failed and whose local run reported a diff
C29_Witness ==
    /\ ca # None
    /\ ca[1].upstream_rustfmt_analysis.rustfmt_error # None
    /\ HasDiff(ca[1].local_rustfmt_analysis)

\* C39: the failure of one workspace member does not discard the analyses
\* of the members analysed before it: the analyses a call of analyze_crate
\* has collected are never lost.
C39_AnalysesKept ==
    [][\A t \in Tasks : task'[t].analyses >= task[t].analyses]_vars

(***************************************************************************)
(* Claims about the scan of the versions dump.                             *)
(***************************************************************************)
Malformed ==
    {"crate_id", "crate_size", "downloads", "yanked", "too_many_fields",
     "not_enough_fields", "unequal_lengths", "no_name"}

\* C12: a malformed record is skipped and the scan goes on: after a record
\* with a non-numeric id, size or download count, a wrong number of fields,
\* an unknown yanked value or an id without a name, the scan has not
\* failed.
C12_MalformedSkipped == scan.last \in Malformed => scan.ret # "Err"

(***************************************************************************)
(* Claims about the stream bridge.                                         *)
(***************************************************************************)

IsPrefix(s, t) == Len(s) <= Len(t) /\ \A i \in 1..Len(s) : s[i] = t[i]

\* C13: the bytes returned by successive AsyncReadShim.read calls, put
\* together, are a prefix of the pushed chunks put together in push order;
\* the remainder of a partly read chunk comes before any later chunk.
C13_DeliveredIsPrefix == IsPrefix(passed.delivered, passed.pushed)

\* a read left a remainder, the remainder was served and bytes of a later
\* chunk followed
C13_Witness ==
    /\ passed.partial
    /\ shim.overflow = <<>>
    /\ passed.received >= 2
    /\ Len(passed.delivered) >= 3

Held == IF producer.pc \in {"try_send", "sleep"} THEN 1 ELSE 0

\* C14: the queue between the producer task and the reader never holds more
\* than 32 chunks, and while the reader is alive every chunk taken from the
\* response is queued, received, or still held by the producer for a retry.
C14_BoundedNoDiscard ==
    /\ Len(channel.queue) <= ChannelCapacity
    /\ channel.receiver = "alive" =>
           producer.taken = passed.received + Len(channel.queue) + Held

\* the queue is full and a chunk that had found it full has been enqueued
C14_Witness ==
    /\ Len(channel.queue) = ChannelCapacity
    /\ passed.retried
    /\ channel.receiver = "alive"

\* C26: after the response ended normally (stream.next() yielded None and
\* the producer dropped the sender), no read returns an error: once the
\* queued bytes are consumed a read returns Ok(0).
C26_EofNotError ==
    producer.end = "eof" => shim.ret # "Err"

\* C27: after stream.next() yielded an error the sender is dropped, so no
\* read blocks; a read returns the I/O error only when every queued byte
\* has been delivered, and once the queue and the overflow are empty every
\* read returns it.
C27_ErrorEndsInIoError ==
    producer.end = "error" =>
        /\ channel.sender = "dropped"
        /\ ~read_blocks(shim, channel)
        /\ shim.ret = "Err" => passed.delivered = passed.pushed
        /\ (channel.queue = <<>> /\ shim.overflow = <<>>) =>
               \A n \in 0..MaxBuf : read(shim, channel, n).ret = "Err"

\* the response failed with chunks still queued, which the reader got
\* before its read returned the error
C27_Witness ==
    /\ producer.end = "error"
    /\ shim.ret = "Err"
    /\ passed.received >= 2
    /\ Len(passed.delivered) >= 2

\* C38: a read into a non-empty buffer returns 0 bytes only at the end of
\* the stream: a read that takes a chunk from the queue and hands no byte
\* to the caller (for a buffer of any length it is the read of an empty
\* chunk) leaves no chunk with data in the queue.
C38_ZeroOnlyAtEnd ==
    [][(/\ passed'.received = passed.received + 1
        /\ passed'.delivered = passed.delivered
        /\ shim'.overflow = <<>>)
       => \A i \in 1..Len(channel'.queue) : channel'.queue[i] = <<>>]_vars

(***************************************************************************)
(* Claims about the report.                                                *)
(***************************************************************************)

\* the failures a result brings
Failures(cr) ==
    (IF cr.upstream_rustfmt_analysis.rustfmt_error # None THEN 1 ELSE 0)
        + (IF cr.local_rustfmt_analysis.rustfmt_error # None THEN 1 ELSE 0)

Kept == Len(report.self.crate_reports)

\* C15: add_result keeps a result in crate_reports if and only if it
\* diverged, or non-diverging results are asked for, or it raised the total
\* of upstream and local failures; whatever its awaits gave.
C15_RetainedIff ==
    (report.pc = "draining" /\ added.last # None) =>
        LET cr == added.last[1].cr
            before == added.last[1].before
            keep == \/ cr.diverging_diff # "None"
                    \/ ~report_args.skip_non_diverging_diffs
                    \/ Failures(cr) > 0
        IN  /\ keep => /\ Kept = Len(before) + 1
                       /\ report.self.crate_reports[Kept].crate_name = cr.crate_name
                       /\ SubSeq(report.self.crate_reports, 1, Kept - 1) = before
            /\ ~keep => report.self.crate_reports = before

\* a result was kept only because it failed, and one was left out
C15_Witness ==
    /\ report.pc = "draining"
    /\ added.n = 2
    /\ Kept = 1
    /\ added.last # None
    /\ added.last[1].cr.diverging_diff = "None"
    /\ Failures(added.last[1].cr) > 0
    /\ Len(added.last[1].before) = 0

\* C16: after n add_result calls, kept or not, successes + diffs + failures
\* is n for the upstream and for the local build, and the divergence tally
\* is the number of results added whose class is not None.  A call that is
\* at an await, or that a stop dropped there, has counted for the upstream
\* build and may not have counted for the local one.
C16_Tallies ==
    LET r == report.self
        upstream == r.num_upstream_successes + r.num_upstream_diffs
                        + r.num_upstream_failures
        local == r.num_local_successes + r.num_local_diffs
                     + r.num_local_failures
    IN  IF report.call = None /\ added.cut = 0
        THEN /\ upstream = added.n
             /\ local = added.n
             /\ r.num_diverging_diffs = added.diverging
        ELSE /\ upstream = added.n + 1
             /\ local \in {added.n, added.n + 1}
             /\ r.num_diverging_diffs \in {added.diverging, added.diverging + 1}

\* the calls that could be made have returned, not every result was kept,
\* and a clean run, a diff and a failure were counted
C16_Witness ==
    /\ added.n = MaxResults
    /\ added.cut = 0
    /\ report.call = None
    /\ Kept < MaxResults
    /\ report.self.num_upstream_successes = 1
    /\ report.self.num_upstream_diffs = 1
    /\ report.self.num_local_failures = 1

\* a <= b for strings
RECURSIVE Leq(_, _)
Leq(a, b) ==
    \/ a = <<>>
    \/ /\ b # <<>>
       /\ \/ Head(a) < Head(b)
          \/ Head(a) = Head(b) /\ Leq(Tail(a), Tail(b))

\* the pieces of a name that count in its order as a path
Pieces(p) == SelectSeq(split(p, <<>>), LAMBDA seg : seg # <<>> /\ seg # <<46>>)

\* a <= b for names: piece by piece, a name before its extensions
RECURSIVE PiecesLeq(_, _)
PiecesLeq(xs, ys) ==
    \/ xs = <<>>
    \/ /\ ys # <<>>
       /\ \/ Head(xs) # Head(ys) /\ Leq(Head(xs), Head(ys))
          \/ Head(xs) = Head(ys) /\ PiecesLeq(Tail(xs), Tail(ys))

Plain(p) == \A i \in 1..Len(p) : p[i] # 47

Sorted(s) ==
    \A i \in 1..(Len(s) - 1) :
        /\ PiecesLeq(Pieces(s[i].crate_name), Pieces(s[i + 1].crate_name))
        /\ Plain(s[i].crate_name) /\ Plain(s[i + 1].crate_name)
               => Leq(s[i].crate_name, s[i + 1].crate_name)

\* C17: in the finished report the kept results are in non-decreasing order
\* of package name, in whatever order they arrived: the order of the names
\* as paths, which for names without a separator is that of the strings.
C17_SortedByName ==
    report.pc = "finished" => Sorted(report.self.crate_reports)

\* kept results of different crates that did not arrive in order, a name
\* with a separator among them
C17_Witness ==
    /\ report.pc = "finished"
    /\ Kept = MaxResults
    /\ added.moved
    /\ \A i \in 1..(Kept - 1) :
           report.self.crate_reports[i].crate_name
               # report.self.crate_reports[i + 1].crate_name
    /\ \E i \in 1..Kept : ~Plain(report.self.crate_reports[i].crate_name)

\* the kept results of the finished report as they would have been pushed
\* had the results arrived in another order
ArrivalOrders(s) ==
    {[i \in 1..Len(s) |-> s[f[i]]] : f \in Permutations(1..Len(s))}

\* C28: the list finish_report leaves is the same for every order in which
\* the kept results arrived, results of one crate name included: sorting
\* any other arrival order of the same results gives the same list.
C28_OrderIndependent ==
    report.pc = "finished" =>
        \A s \in ArrivalOrders(report.self.crate_reports) :
            sort_by_crate_name(s) = report.self.crate_reports

(***************************************************************************)
(* Claims about main.                                                      *)
(***************************************************************************)

\* C18: no interrupt ends the process by itself as the first one does not:
\* the first interrupt issues exactly one stop request and the loop goes on
\* waiting for the run; the second ends the process at once with a failure
\* status, whatever the run and the stop acknowledgment are doing.  So
\* the process is never killed by the signal, every interrupt sent has
\* been acted on once the loop waits again with none pending, and the
\* second one acted on ends the process.
C18_TwoInterrupts ==
    /\ main.pc # "killed"
    /\ (main.pc = "loop" /\ ~signals.pending) => signals.sent = main.handled
    /\ main.handled = 0 => Len(stop_tasks) = 0
    /\ main.handled = 1 =>
           /\ Len(stop_tasks) = 1
           /\ main.pc = "exited" => main.by = "task" /\ meteoroid_task # "running"
    /\ main.handled >= 2 =>
           /\ main.handled = 2
           /\ Len(stop_tasks) = 1
           /\ main.pc = "exited" /\ main.by = "ctrl_c" /\ main.exit = "FAILURE"

(***************************************************************************)
(* Claims about running the acquisition again.                             *)
(***************************************************************************)

ItemsOf(run, i) == {it \in run.emitted : it.pruned_crate = i}

\* C19: with resync disabled, a run that finds a candidate's directory in
\* place does not clone it and sends the WorkItems the first run sent for
\* it.
C19_RerunSame ==
    ~should_sync =>
        \A r \in 2..Len(runs) : \A i \in DOMAIN crates :
            runs[r].dir_before[i] = "present" =>
                /\ i \notin runs[r].cloned
                /\ ItemsOf(runs[r], i) = ItemsOf(runs[1], i)

\* the first run cloned a candidate and sent its WorkItem, the second found
\* the directory and sent the same one
C19_Witness ==
    /\ ~should_sync
    /\ Len(runs) = 2
    /\ \E i \in DOMAIN crates :
          /\ runs[1].dir_before[i] = "absent"
          /\ i \in runs[1].cloned
          /\ runs[2].dir_before[i] = "present"
          /\ ItemsOf(runs[2], i) # {}

(***************************************************************************)
(* Claims about the WorkItem channel.                                      *)
(***************************************************************************)
\* C25: for both crate sources and every configuration of the two
\* concurrency limits, the WorkItem channel never holds more than
\* 2 x analysis_max_concurrent WorkItems.
C25_WorkChannelBound ==
    work.len <= 2 * config.analysis_max_concurrent

\* C40: in local-crates mode find_local_crates_in sends at most max_crates
\* WorkItems, for every max_crates (0 included) and every directory, and
\* has returned once it sent max_crates of them.
C40_AtMostMaxCrates ==
    config.crate_source = "LocalCrates" =>
        /\ work.emitted <= config.max_crates
        /\ (work.emitted >= 1 /\ work.emitted = config.max_crates) =>
               finder.pc = "done"

(***************************************************************************)
(* Claims about exec_parallel.                                             *)
(***************************************************************************)
Spawned == \A t \in ExecTasks : stage_task[t].state # "unspawned"

Terminated == \A t \in ExecTasks : stage_task[t].state \in {"done", "stopped"}

\* C31: the two formatter builds are never in progress at the same time;
\* the upstream build is started only after the local build returned Ok,
\* and never if the local build failed, whatever the fetch of the
\* candidates is doing meanwhile
C31_BuildsSequential ==
    /\ ~(prep.local = "running" /\ prep.upstream = "running")
    /\ prep.upstream # "todo" => prep.local = "Ok"

\* the upstream build runs while the fetch of the candidates still runs
C31_Witness ==
    /\ prep.local = "Ok"
    /\ prep.upstream = "running"
    /\ prep.fetch = "running"

\* C36: with_stop is never called on a StopReceiver after a with_stop on
\* that receiver returned None: not by exec_parallel on the user's
\* receiver, and each stage task calls with_stop exactly once
C36_NoCallAfterStopped ==
    /\ ~user.reused
    /\ \A t \in ExecTasks :
          stage_task[t].calls = IF stage_task[t].state = "unspawned" THEN 0 ELSE 1

\* the drain was stopped by the user, exec_parallel finished the report
\* and returned, the stage tasks were stopped
C36_Witness ==
    /\ user.stopped
    /\ user.calls = 2
    /\ exec.pc = "returned"
    /\ \A t \in ExecTasks : stage_task[t].state = "stopped"

\* C35: whenever exec_parallel has returned after spawning the stage
\* tasks, both tasks terminate: they had finished, they acknowledged a
\* stop, or they found their StopSender dropped (then no acknowledgment
\* is sent)
C35_TasksTerminate ==
    /\ [](\A t \in ExecTasks : stage_task[t].ack = "sent" => stage_task[t].sender # "dropped")
    /\ (exec.pc = "returned" /\ Spawned) ~> Terminated

\* exec_parallel returned the error of the report setup and a stage task
\* ended on its dropped StopSender, without acknowledgment
C35_Witness ==
    /\ exec.pc = "returned"
    /\ exec.ret = "Err"
    /\ Terminated
    /\ \E t \in ExecTasks :
          /\ stage_task[t].state = "stopped"
          /\ stage_task[t].sender = "dropped"
          /\ stage_task[t].ack = "none"

\* the end of a run that was not stopped: exec_parallel has returned, no
\* stage task runs, and a run that returned Ok drained every result and
\* finished the report
RunEnded ==
    /\ exec.pc = "returned"
    /\ \A t \in ExecTasks : stage_task[t].state # "running"
    /\ exec.ret = "Ok" =>
          /\ Terminated
          /\ pipe.todo = 0 /\ pipe.work_len = 0 /\ pipe.unordered = 0
          /\ pipe.sending = 0 /\ pipe.res_len = 0
          /\ pipe.adding = 0 /\ pipe.cut = 0
          /\ pipe.report = "finished"

\* C37: with no stop request, a finite candidate list and commands that
\* end, the pipeline does not deadlock: the stage tasks and the drain
\* end, the report is finished and exec_parallel returns
C37_NoDeadlock ==
    \/ <>(user.chan # "empty")
    \/ <>[]RunEnded

\* a run that was not stopped and had filled the result channel returned
\* Ok with every result tallied
C37_Witness ==
    /\ user.chan = "empty"
    /\ exec.pc = "returned"
    /\ exec.ret = "Ok"
    /\ pipe.report = "finished"
    /\ pipe.tallied = ResultChannelCapacity + MaxWork
    /\ Terminated

====
